---------------------------- MODULE Spec2Model ----------------------------
(***************************************************************************)
(* Verification model of the lecpa-agent ingestion and retrieval pipeline. *)
(*                                                                         *)
(* Three state machines share this module:                                 *)
(*   SpecChunk  - the sliding-window chunker (worker/tasks/embed.py)       *)
(*   SpecIngest - the ingest_document task (worker/tasks/ingest.py) run by *)
(*                a Celery worker with late acknowledgement                *)
(*   SpecApi    - the sync-agent facing endpoints (api/routers/ingest.py)  *)
(*                handled by concurrent request coroutines over one store  *)
(***************************************************************************)
EXTENDS Integers, Sequences, FiniteSets, TLC

VARIABLES
    \* ---- chunker (semantic_chunk) ----
    ch_text,          \* the canonicalized text being chunked
    ch_pc,            \* "loop" | "done"
    current_pos,      \* window start (Python index, may become negative)
    current_page,     \* page carried over from the previous chunk
    chunks,           \* chunks appended so far
    \* ---- one document and the worker that runs ingest_document ----
    processing_status,  \* documents.processing_status (committed)
    processing_error,   \* documents.processing_error (committed)
    doc_chunks,         \* chunk_index of every committed document_chunks row
    ingest_queue,       \* ingest_document messages waiting in the broker
    deliveries,         \* deliveries of the message so far
    w_pc,               \* the statement the task is at, "idle" when none runs
    w_err,              \* str(e) of the exception being handled
    w_is_ocr,           \* local is_ocr
    w_chunks,           \* local chunks (result of chunk_and_embed)
    w_tx_failed,        \* the session's transaction was aborted by the store
    \* ---- the store and the request handlers of api/routers/ingest.py ----
    clients,            \* rows of clients
    cases,              \* rows of cases
    documents,          \* rows of documents
    sync_queue,         \* rows of sync_queue
    sent_tasks,         \* ingest_document messages sent, per document id
    now,                \* the clock, one tick per request
    last_file_event,    \* _last_file_event
    h_pc,               \* per handler: the await it is suspended at
    h_req,              \* per handler: the request being served
    h_loc,              \* per handler: local variables
    h_resp,             \* per handler: the response to its last request
    \* ---- the sync agent's watcher (nas_sync/watcher.py) ----
    pending_events,     \* DebouncedHandler.pending_events, in insertion order
    wt_clock,           \* datetime.now() of the agent
    running,            \* NASWatcher._running
    observing,          \* the observer thread is alive
    d_pc,               \* position of run_processing_loop
    to_process,         \* local to_process of process_pending
    paths_to_remove,    \* local paths_to_remove of process_pending
    dispatched,         \* the calls of _process_file so far
    raw_log,            \* per path: the raw filesystem events received
    api_closed,         \* APIClient.close() has run
    \* ---- a caller of the sync agent's APIClient (nas_sync/api_client.py) ----
    c_pc,               \* position of the call: "idle", "attempt", "wait", "done"
    c_call,             \* the method called
    c_attempts,         \* outcome of every HTTP attempt of the call
    c_slept,            \* seconds slept between the attempts of the call
    c_result,           \* what the call gave its caller
    c_calls,            \* calls made so far
    \* ---- a caller of HybridSearchService.search (api/services/search.py) ----
    s_result,           \* the chunk rows the last search returned
    s_count,            \* searches made so far
    \* ---- hybrid search scoring (apps/api/services/search.py) ----
    sv_rows,            \* eligible chunk rows: their vector and full-text scores
    sv_weights,         \* <<vector_weight, fts_weight>> of the last search
    sv_citations,       \* citations returned by the last search
    \* ---- a caller of FolderParser.parse (nas_sync/parser.py) ----
    pr_path,            \* the path handed to parse
    pr_result,          \* what parse gave its caller
    \* ---- the sync agent's full scan and file processing (nas_sync/scanner.py, watcher.py) ----
    sn_nas,             \* the files on the NAS
    sn_pc,              \* position of FullScanner.scan: "idle", "scanning", "returned", "raised"
    sn_dry_run,         \* the dry_run argument of the scan
    all_files,          \* local all_files of scan
    sn_next,            \* index in all_files of the next file to process
    files_scanned,      \* FullScanner.files_scanned
    files_queued,       \* FullScanner.files_queued
    files_skipped,      \* FullScanner.files_skipped
    files_failed,       \* FullScanner.files_failed
    relationships_found, \* FullScanner.relationships_found
    sn_processed,       \* the calls of FullScanner._process_file and how each failed
    sn_resolved,        \* the paths the scan passed to find_relationship_from_lnk
    sn_sent,            \* the notifications the scan sent to the API
    sn_results,         \* the dictionary scan returned
    sn_api_closed,      \* APIClient.close() has run at the end of the scan
    wp_handled,         \* the last call of NASWatcher._process_file and what it did
    \* ---- the agent-facing endpoints of the ingest router (api/routers/ingest.py) ----
    last_heartbeat,     \* _last_heartbeat, NoTime while None
    document_chunks,    \* the rows of document_chunks
    \* ---- the relationship endpoint of the ingest router (api/routers/ingest.py) ----
    relationships,      \* the rows of client_relationships
    rl_calls,           \* relationship requests received so far
    \* ---- an admin calling the re-index endpoint (api/routers/admin.py) ----
    ri_request,         \* the last re-index request
    ri_response,        \* the response to the last re-index request
    ri_calls,           \* re-index requests made so far
    \* ---- a caller of canonicalize_document (worker/tasks/canonicalize.py) ----
    cn_pages,           \* the page_texts argument
    cn_is_ocr,          \* the is_ocr argument
    cn_done,            \* canonicalize_document has returned
    cn_result,          \* the dictionary canonicalize_document returned
    \* ---- one FolderParser object over several calls (nas_sync/parser.py) ----
    fp_self,            \* the attributes of the FolderParser object
    fp_calls,           \* the parse calls made so far, each with what it returned
    \* ---- the Celery worker pool (worker/main.py) running ingest_document ----
    pl_queue,           \* the messages waiting at the broker
    pl_worker,          \* what each worker process of the pool is running
    pl_results,         \* the sub-stage results in the result backend
    pl_status,          \* documents.processing_status of each document
    \* ---- a caller of collapse_whitespace (worker/tasks/canonicalize.py) ----
    cw_text,            \* the text argument
    cw_calls,           \* how often collapse_whitespace has been applied
    cw_result,          \* what each application returned
    \* ---- the OCR decision of ingest_document (worker/tasks/ocr.py) ----
    oc_input,           \* len(text), page_count, file_size and the OCR configuration
    oc_pc,              \* where ingest_document is
    oc_needed,          \* what check_ocr_needed returned
    oc_statuses         \* the statuses written to the document, in order

chunkVars == <<ch_text, ch_pc, current_pos, current_page, chunks>>

ingestVars == <<processing_status, processing_error, doc_chunks, ingest_queue,
                deliveries, w_pc, w_err, w_is_ocr, w_chunks, w_tx_failed>>

storeVars == <<clients, cases, documents, sync_queue, sent_tasks>>

apiVars == <<storeVars, now, last_file_event, h_pc, h_req, h_loc, h_resp>>

watchVars == <<pending_events, wt_clock, running, observing, d_pc, to_process,
               paths_to_remove, dispatched, raw_log, api_closed>>

clientVars == <<c_pc, c_call, c_attempts, c_slept, c_result, c_calls>>

searchVars == <<s_result, s_count>>

scoreVars == <<sv_rows, sv_weights, sv_citations>>

parseVars == <<pr_path, pr_result>>

scanVars == <<sn_nas, sn_pc, sn_dry_run, all_files, sn_next, files_scanned,
              files_queued, files_skipped, files_failed, relationships_found,
              sn_processed, sn_resolved, sn_sent, sn_results, sn_api_closed,
              wp_handled>>

agentVars == <<last_heartbeat, document_chunks>>

relVars == <<relationships, rl_calls>>

reindexVars == <<ri_request, ri_response, ri_calls>>

canonVars == <<cn_pages, cn_is_ocr, cn_done, cn_result>>

parserVars == <<fp_self, fp_calls>>

poolVars == <<pl_queue, pl_worker, pl_results, pl_status>>

collapseVars == <<cw_text, cw_calls, cw_result>>

ocrVars == <<oc_input, oc_pc, oc_needed, oc_statuses>>

vars == <<chunkVars, ingestVars, apiVars, watchVars, clientVars, searchVars,
          scoreVars, parseVars, scanVars, agentVars, relVars, reindexVars,
          canonVars, parserVars, poolVars, collapseVars, ocrVars>>

\* the variables of the other state machines, left alone by each machine
notChunkVars == <<ingestVars, apiVars, watchVars, clientVars, searchVars,
                  scoreVars, parseVars, scanVars, agentVars, relVars,
                  reindexVars, canonVars, parserVars, poolVars, collapseVars,
                  ocrVars>>
notIngestVars == <<chunkVars, apiVars, watchVars, clientVars, searchVars,
                   scoreVars, parseVars, scanVars, agentVars, relVars,
                   reindexVars, canonVars, parserVars, poolVars,
                   collapseVars, ocrVars>>
notApiVars == <<chunkVars, ingestVars, watchVars, clientVars, searchVars,
                scoreVars, parseVars, scanVars, agentVars, relVars,
                reindexVars, canonVars, parserVars, poolVars, collapseVars,
                ocrVars>>
notWatchVars == <<chunkVars, ingestVars, apiVars, clientVars, searchVars,
                  scoreVars, parseVars, scanVars, agentVars, relVars,
                  reindexVars, canonVars, parserVars, poolVars, collapseVars,
                  ocrVars>>
notClientVars == <<chunkVars, ingestVars, apiVars, watchVars, searchVars,
                   scoreVars, parseVars, scanVars, agentVars, relVars,
                   reindexVars, canonVars, parserVars, poolVars,
                   collapseVars, ocrVars>>
notSearchVars == <<chunkVars, ingestVars, apiVars, watchVars, clientVars,
                   scoreVars, parseVars, scanVars, agentVars, relVars,
                   reindexVars, canonVars, parserVars, poolVars,
                   collapseVars, ocrVars>>
notScoreVars == <<chunkVars, ingestVars, apiVars, watchVars, clientVars,
                  searchVars, parseVars, scanVars, agentVars, relVars,
                  reindexVars, canonVars, parserVars, poolVars, collapseVars,
                  ocrVars>>
notParseVars == <<chunkVars, ingestVars, apiVars, watchVars, clientVars,
                  searchVars, scoreVars, scanVars, agentVars, relVars,
                  reindexVars, canonVars, parserVars, poolVars, collapseVars,
                  ocrVars>>
notScanVars == <<chunkVars, ingestVars, apiVars, watchVars, clientVars,
                 searchVars, scoreVars, parseVars, agentVars, relVars,
                 reindexVars, canonVars, parserVars, poolVars, collapseVars,
                 ocrVars>>
notAgentVars == <<chunkVars, ingestVars, apiVars, watchVars, clientVars,
                  searchVars, scoreVars, parseVars, scanVars, relVars,
                  reindexVars, canonVars, parserVars, poolVars, collapseVars,
                  ocrVars>>

\* the variables neither the ingest router nor its agent-facing state owns
notApiAgentVars == <<chunkVars, ingestVars, watchVars, clientVars,
                     searchVars, scoreVars, parseVars, scanVars, relVars,
                     reindexVars, canonVars, parserVars, poolVars,
                     collapseVars, ocrVars>>

notRelVars == <<chunkVars, ingestVars, apiVars, watchVars, clientVars,
                searchVars, scoreVars, parseVars, scanVars, agentVars,
                reindexVars, canonVars, parserVars, poolVars, collapseVars,
                ocrVars>>

\* the variables neither the ingest router nor its relationship endpoint owns
notApiRelVars == <<chunkVars, ingestVars, watchVars, clientVars, searchVars,
                   scoreVars, parseVars, scanVars, agentVars, reindexVars,
                   canonVars, parserVars, poolVars, collapseVars, ocrVars>>
notReindexVars == <<chunkVars, ingestVars, apiVars, watchVars, clientVars,
                    searchVars, scoreVars, parseVars, scanVars, agentVars,
                    relVars, canonVars, parserVars, poolVars, collapseVars,
                    ocrVars>>
notCanonVars == <<chunkVars, ingestVars, apiVars, watchVars, clientVars,
                  searchVars, scoreVars, parseVars, scanVars, agentVars,
                  relVars, reindexVars, parserVars, poolVars, collapseVars,
                  ocrVars>>
notParserVars == <<chunkVars, ingestVars, apiVars, watchVars, clientVars,
                   searchVars, scoreVars, parseVars, scanVars, agentVars,
                   relVars, reindexVars, canonVars, poolVars, collapseVars,
                   ocrVars>>
notPoolVars == <<chunkVars, ingestVars, apiVars, watchVars, clientVars,
                 searchVars, scoreVars, parseVars, scanVars, agentVars,
                 relVars, reindexVars, canonVars, parserVars, collapseVars,
                 ocrVars>>
notCollapseVars == <<chunkVars, ingestVars, apiVars, watchVars, clientVars,
                     searchVars, scoreVars, parseVars, scanVars, agentVars,
                     relVars, reindexVars, canonVars, parserVars, poolVars,
                     ocrVars>>
notOcrVars == <<chunkVars, ingestVars, apiVars, watchVars, clientVars,
                searchVars, scoreVars, parseVars, scanVars, agentVars,
                relVars, reindexVars, canonVars, parserVars, poolVars,
                collapseVars>>

None == "None"

\* the request handlers served concurrently
Procs == {"r1", "r2"}

NoReq == [kind |-> None]
NoResp == [status |-> None]

\* a state machine that is not running
ApiIdle ==
    /\ clients = {}
    /\ cases = {}
    /\ documents = {}
    /\ sync_queue = {}
    /\ sent_tasks = <<>>
    /\ now = 0
    /\ last_file_event = 0
    /\ h_pc = [p \in Procs |-> "idle"]
    /\ h_req = [p \in Procs |-> NoReq]
    /\ h_loc = [p \in Procs |-> None]
    /\ h_resp = [p \in Procs |-> NoResp]

ChunkIdle ==
    /\ ch_text = <<>>
    /\ ch_pc = "done"
    /\ current_pos = 0
    /\ current_page = 1
    /\ chunks = <<>>

IngestIdle ==
    /\ processing_status = "pending"
    /\ processing_error = None
    /\ doc_chunks = <<>>
    /\ ingest_queue = 0
    /\ deliveries = 0
    /\ w_pc = "idle"
    /\ w_err = None
    /\ w_is_ocr = FALSE
    /\ w_chunks = <<>>
    /\ w_tx_failed = FALSE

\* the files the watcher sees change
WatchPaths == {"a.pdf", "b.pdf"}

WatchIdle ==
    /\ pending_events = <<>>
    /\ wt_clock = 0
    /\ running = FALSE
    /\ observing = FALSE
    /\ d_pc = "returned"
    /\ to_process = <<>>
    /\ paths_to_remove = <<>>
    /\ dispatched = <<>>
    /\ raw_log = [path \in WatchPaths |-> <<>>]
    /\ api_closed = FALSE

NoResult == [how |-> None, value |-> None]

ClientIdle ==
    /\ c_pc = "idle"
    /\ c_call = None
    /\ c_attempts = <<>>
    /\ c_slept = 0
    /\ c_result = NoResult
    /\ c_calls = 0

SearchIdle ==
    /\ s_result = {}
    /\ s_count = 0

ScoreIdle ==
    /\ sv_rows = {}
    /\ sv_weights = <<7, 3>>
    /\ sv_citations = <<>>

ParseIdle ==
    /\ pr_path = <<>>
    /\ pr_result = [outcome |-> "none", value |-> [client_code |-> <<>>, client_name |-> <<>>, client_type |-> "None", year |-> -1, folder_tag |-> "None", is_permanent |-> FALSE, relative_path |-> <<>>, is_valid |-> FALSE, skip_reason |-> <<>>]]

ScanIdle ==
    /\ sn_nas = {}
    /\ sn_pc = "idle"
    /\ sn_dry_run = FALSE
    /\ all_files = <<>>
    /\ sn_next = 1
    /\ files_scanned = 0
    /\ files_queued = 0
    /\ files_skipped = 0
    /\ files_failed = 0
    /\ relationships_found = 0
    /\ sn_processed = <<>>
    /\ sn_resolved = <<>>
    /\ sn_sent = <<>>
    /\ sn_results = [status |-> "None", files_scanned |-> 0, files_queued |-> 0, files_skipped |-> 0, files_failed |-> 0, relationships_found |-> 0]
    /\ sn_api_closed = FALSE
    /\ wp_handled = [path |-> <<>>, event_type |-> "None", resolved |-> FALSE, sent |-> "None"]

AgentIdle ==
    /\ last_heartbeat = 0
    /\ document_chunks = {}

RelIdle ==
    /\ relationships = {}
    /\ rl_calls = 0

ReindexIdle ==
    /\ ri_request = [document_ids |-> {}, all_documents |-> FALSE]
    /\ ri_response = [status |-> "None"]
    /\ ri_calls = 0

CanonIdle ==
    /\ cn_pages = <<>>
    /\ cn_is_ocr = FALSE
    /\ cn_done = FALSE
    /\ cn_result = [text |-> <<>>, page_texts |-> <<>>, removed_headers |-> {}, removed_footers |-> {}]

ParserIdle ==
    /\ fp_self = [root_path |-> <<>>, skip_patterns |-> <<>>, special_folders |-> {}]
    /\ fp_calls = <<>>

PoolIdle ==
    /\ pl_queue = {}
    /\ pl_worker = <<>>
    /\ pl_results = {}
    /\ pl_status = <<>>

CollapseIdle ==
    /\ cw_text = <<>>
    /\ cw_calls = 0
    /\ cw_result = <<>>

OcrIdle ==
    /\ oc_input = [char_count |-> 0, page_count |-> 0, file_size |-> 0, config |-> [enabled |-> FALSE, mode |-> "always"]]
    /\ oc_pc = "idle"
    /\ oc_needed = [outcome |-> "none", value |-> FALSE]
    /\ oc_statuses = <<>>

Max(a, b) == IF a >= b THEN a ELSE b
Min(a, b) == IF a <= b THEN a ELSE b

-----------------------------------------------------------------------------
(***************************************************************************)
(* Ingestion orchestrator: worker/tasks/ingest.py, worker/main.py          *)
(*                                                                         *)
(* One document and its ingest_document message.  The worker acknowledges  *)
(* the message only when the task has returned or raised (task_acks_late), *)
(* and a lost worker puts the message back (task_reject_on_worker_lost).   *)
(* Every stage may raise; str(e) may be empty (SoftTimeLimitExceeded()).   *)
(* The lookup at lines 151-158 is one of the raising stages: besides a     *)
(* missing row or a store error, the name `text` it calls is local to      *)
(* ingest_document (assigned at line 183) and unbound at that point.       *)
(***************************************************************************)

MaxDeliveries == 3
MaxDocChunks == 2

ErrTexts == {"", "boom"}

Statuses == {"pending", "extracting", "ocr", "canonicalizing", "chunking",
             "embedding", "ready", "failed"}

\* the document as file_arrived leaves it: pending, one message sent
IngestInit ==
    /\ processing_status = "pending"
    /\ processing_error = None
    /\ doc_chunks = <<>>
    /\ ingest_queue = 1
    /\ deliveries = 0
    /\ w_pc = "idle"
    /\ w_err = None
    /\ w_is_ocr = FALSE
    /\ w_chunks = <<>>
    /\ w_tx_failed = FALSE
    /\ ChunkIdle
    /\ ApiIdle
    /\ WatchIdle
    /\ ClientIdle
    /\ SearchIdle
    /\ ScoreIdle
    /\ ParseIdle
    /\ ScanIdle
    /\ AgentIdle
    /\ RelIdle
    /\ ReindexIdle
    /\ CanonIdle
    /\ ParserIdle
    /\ PoolIdle
    /\ CollapseIdle
    /\ OcrIdle

docVars == <<processing_status, processing_error, doc_chunks>>
brokerVars == <<ingest_queue, deliveries>>
localVars == <<w_err, w_is_ocr, w_chunks, w_tx_failed>>

\* update_document_status(db, document_id, status, error)
update_document_status(status, error) ==
    /\ processing_status' = status
    /\ processing_error' = IF error # None /\ error # "" THEN error
                           ELSE processing_error

Goto(from, to) == w_pc = from /\ w_pc' = to

\* the worker takes the message and starts ingest_document (lines 144-147)
Deliver ==
    /\ w_pc = "idle"
    /\ ingest_queue > 0
    /\ deliveries < MaxDeliveries
    /\ ingest_queue' = ingest_queue - 1
    /\ deliveries' = deliveries + 1
    /\ w_pc' = "lookup"
    /\ w_err' = None /\ w_is_ocr' = FALSE /\ w_chunks' = <<>> /\ w_tx_failed' = FALSE
    /\ UNCHANGED <<docVars, notIngestVars>>

\* lines 151-162
Lookup ==
    /\ Goto("lookup", "mark_extracting")
    /\ UNCHANGED <<docVars, brokerVars, localVars, notIngestVars>>

\* line 165
MarkExtracting ==
    /\ Goto("mark_extracting", "download")
    /\ update_document_status("extracting", None)
    /\ UNCHANGED <<doc_chunks, brokerVars, localVars, notIngestVars>>

\* lines 168-173
Download ==
    /\ Goto("download", "extract")
    /\ UNCHANGED <<docVars, brokerVars, localVars, notIngestVars>>

\* lines 177-185
Extract ==
    /\ Goto("extract", "check_ocr")
    /\ UNCHANGED <<docVars, brokerVars, localVars, notIngestVars>>

\* lines 188-190: check_ocr_needed decides on the extracted text
CheckOcr ==
    /\ w_pc = "check_ocr"
    /\ \E needed \in BOOLEAN :
          IF needed
          THEN /\ update_document_status("ocr", None)
               /\ w_pc' = "ocr"
          ELSE /\ UNCHANGED <<processing_status, processing_error>>
               /\ w_pc' = "mark_canonicalizing"
    /\ UNCHANGED <<doc_chunks, brokerVars, localVars, notIngestVars>>

\* lines 193-201
Ocr ==
    /\ Goto("ocr", "mark_canonicalizing")
    /\ w_is_ocr' = TRUE
    /\ UNCHANGED <<docVars, brokerVars, w_err, w_chunks, w_tx_failed, notIngestVars>>

\* line 204
MarkCanonicalizing ==
    /\ Goto("mark_canonicalizing", "canonicalize")
    /\ update_document_status("canonicalizing", None)
    /\ UNCHANGED <<doc_chunks, brokerVars, localVars, notIngestVars>>

\* lines 206-212
Canonicalize ==
    /\ Goto("canonicalize", "mark_chunking")
    /\ UNCHANGED <<docVars, brokerVars, localVars, notIngestVars>>

\* line 215
MarkChunking ==
    /\ Goto("mark_chunking", "chunk")
    /\ update_document_status("chunking", None)
    /\ UNCHANGED <<doc_chunks, brokerVars, localVars, notIngestVars>>

\* lines 217-220 and embed.py 178-182: chunk_and_embed creates the chunks
Chunk ==
    /\ Goto("chunk", "embed")
    /\ \E n \in 1..MaxDocChunks : w_chunks' = [i \in 1..n |-> i - 1]
    /\ UNCHANGED <<docVars, brokerVars, w_err, w_is_ocr, w_tx_failed, notIngestVars>>

\* embed.py 190-217 and lines 220-224: chunk_and_embed generates the embeddings
Embed ==
    /\ Goto("embed", "mark_embedding")
    /\ UNCHANGED <<docVars, brokerVars, localVars, notIngestVars>>

\* line 227
MarkEmbedding ==
    /\ Goto("mark_embedding", "store_chunks")
    /\ update_document_status("embedding", None)
    /\ UNCHANGED <<doc_chunks, brokerVars, localVars, notIngestVars>>

\* store_chunks (lines 77-121, 228): one INSERT per chunk, one commit
StoreChunks ==
    /\ Goto("store_chunks", "mark_ready")
    /\ doc_chunks' = doc_chunks \o w_chunks
    /\ UNCHANGED <<processing_status, processing_error, brokerVars, localVars, notIngestVars>>

\* lines 231-239
MarkReady ==
    /\ Goto("mark_ready", "return")
    /\ update_document_status("ready", None)
    /\ UNCHANGED <<doc_chunks, brokerVars, localVars, notIngestVars>>

\* lines 249-260, 272: the task returns and the message is acknowledged
Return ==
    /\ Goto("return", "idle")
    /\ UNCHANGED <<docVars, brokerVars, localVars, notIngestVars>>

RaisingStages == {"lookup", "download", "extract", "ocr", "canonicalize",
                  "chunk", "embed"}

\* a stage raises: control passes to the handler at line 262
StageRaises ==
    /\ w_pc \in RaisingStages
    /\ \E e \in ErrTexts : w_err' = e
    /\ w_pc' = "handler"
    /\ UNCHANGED <<docVars, brokerVars, w_is_ocr, w_chunks, w_tx_failed, notIngestVars>>

\* store_chunks raises: uncommitted rows are lost; when the store rejected
\* a statement the session is left inside the aborted transaction
StoreChunksRaises ==
    /\ w_pc = "store_chunks"
    /\ \E e \in ErrTexts : w_err' = e
    /\ \E aborted \in BOOLEAN : w_tx_failed' = aborted
    /\ w_pc' = "handler"
    /\ UNCHANGED <<docVars, brokerVars, w_is_ocr, w_chunks, notIngestVars>>

\* lines 262-269: except Exception as e
Handler ==
    /\ Goto("handler", "raised")
    /\ IF w_tx_failed
       THEN UNCHANGED <<processing_status, processing_error>>
       ELSE update_document_status("failed", w_err)
    /\ UNCHANGED <<doc_chunks, brokerVars, localVars, notIngestVars>>

\* lines 269, 272: the exception leaves the task, the message is acknowledged
AckFailure ==
    /\ Goto("raised", "idle")
    /\ UNCHANGED <<docVars, brokerVars, localVars, notIngestVars>>

\* the worker process is lost while the task runs: the unacknowledged
\* message goes back to the queue (main.py lines 37-38)
WorkerLost ==
    /\ w_pc # "idle"
    /\ w_pc' = "idle"
    /\ ingest_queue' = ingest_queue + 1
    /\ UNCHANGED <<docVars, deliveries, localVars, notIngestVars>>

IngestNext ==
    \/ Deliver \/ Lookup \/ MarkExtracting \/ Download \/ Extract \/ CheckOcr
    \/ Ocr \/ MarkCanonicalizing \/ Canonicalize \/ MarkChunking \/ Chunk
    \/ Embed \/ MarkEmbedding \/ StoreChunks \/ MarkReady \/ Return
    \/ StageRaises \/ StoreChunksRaises \/ Handler \/ AckFailure \/ WorkerLost

-----------------------------------------------------------------------------
(***************************************************************************)
(* Chunker: worker/tasks/embed.py                                          *)
(***************************************************************************)

\* Text is a sequence of character tokens: "a" is a word character, "n" a
\* newline, and a page marker "[PAGE k]" is the three tokens "[", "k", "]".
MaxPages == 4
MaxBody == 3
MaxChunks == 4

\* target_tokens (1000), overlap_tokens (100) and the 200-character paragraph
\* window, scaled down together with the texts
CharsPerToken == 4
TargetTokens == 5
OverlapTokens == 4
ParaWindow == 2

IsSpace(c) == c = "n"

\* Python s[i:j] on a 0-based string, negative indices counted from the end.
PyIndex(len, i) == IF i < 0 THEN Max(len + i, 0) ELSE Min(i, len)
PySlice(s, i, j) == SubSeq(s, PyIndex(Len(s), i) + 1, PyIndex(Len(s), j))

\* str.strip()
RECURSIVE LStrip(_)
LStrip(s) == IF s # <<>> /\ IsSpace(Head(s)) THEN LStrip(Tail(s)) ELSE s
RECURSIVE RStrip(_)
RStrip(s) ==
    IF s # <<>> /\ IsSpace(s[Len(s)]) THEN RStrip(SubSeq(s, 1, Len(s) - 1)) ELSE s
Strip(s) == RStrip(LStrip(s))

\* re.search(r"\n\n", region).end(), or -1 when there is no match
ParaBreakEnd(region) ==
    LET hits == {i \in 1..(Len(region) - 1) : region[i] = "n" /\ region[i + 1] = "n"}
    IN  IF hits = {} THEN -1
        ELSE (CHOOSE i \in hits : \A j \in hits : i <= j) + 1

\* the decimal numeral of a page number, and int() of a numeral
DigitOfPage == <<"1", "2", "3", "4", "5">>
PageOfDigit == [d \in {DigitOfPage[i] : i \in DOMAIN DigitOfPage} |->
                   CHOOSE i \in DOMAIN DigitOfPage : DigitOfPage[i] = d]

\* the markers of a chunk listed from the last one to the first
FindPages_Reversed(s) ==
    LET at == {i \in 1..(Len(s) - 2) :
                  s[i] = "[" /\ s[i + 1] \in DOMAIN PageOfDigit /\ s[i + 2] = "]"}
        RECURSIVE Collect(_)
        Collect(i) ==
            IF i > Len(s) THEN <<>>
            ELSE IF i \in at THEN Collect(i + 1) \o <<PageOfDigit[s[i + 1]]>>
            ELSE Collect(i + 1)
    IN  Collect(1)

\* page_pattern.findall(chunk_text): the page numbers of the complete markers
FindPages(s) ==
    LET at == {i \in 1..(Len(s) - 2) :
                  s[i] = "[" /\ s[i + 1] \in DOMAIN PageOfDigit /\ s[i + 2] = "]"}
        RECURSIVE Collect(_)
        Collect(i) ==
            IF i > Len(s) THEN <<>>
            ELSE IF i \in at THEN <<PageOfDigit[s[i + 1]]>> \o Collect(i + 1)
            ELSE Collect(i + 1)
    IN  Collect(1)

\* canonicalize_document: "[PAGE i]\n" + page, pages joined by a blank line
PageBodies ==
    {b \in UNION {[1..k -> {"a", "n"}] : k \in 0..MaxBody} :
        /\ b # <<>> => (b[1] = "a" /\ b[Len(b)] = "a")
        /\ \A i \in 1..(Len(b) - 1) : ~(b[i] = "n" /\ b[i + 1] = "n")}

RECURSIVE JoinPages(_, _)
JoinPages(pages, i) ==
    IF i > Len(pages) THEN <<>>
    ELSE (IF i > 1 THEN <<"n", "n">> ELSE <<>>)
         \o <<"[", DigitOfPage[i], "]", "n">> \o pages[i] \o JoinPages(pages, i + 1)

CanonicalTexts ==
    {JoinPages(p, 1) : p \in UNION {[1..k -> PageBodies] : k \in 0..MaxPages}}

ChunkInit ==
    /\ ch_text \in CanonicalTexts
    /\ ch_pc = "loop"
    /\ current_pos = 0
    /\ current_page = 1
    /\ chunks = <<>>
    /\ IngestIdle
    /\ ApiIdle
    /\ WatchIdle
    /\ ClientIdle
    /\ SearchIdle
    /\ ScoreIdle
    /\ ParseIdle
    /\ ScanIdle
    /\ AgentIdle
    /\ RelIdle
    /\ ReindexIdle
    /\ CanonIdle
    /\ ParserIdle
    /\ PoolIdle
    /\ CollapseIdle
    /\ OcrIdle

\* the end of the window that starts at pos (lines 78-87)
EndPos(text, pos) ==
    LET target_chars == TargetTokens * CharsPerToken
        end0 == Min(pos + target_chars, Len(text))
    IN  IF end0 < Len(text)
        THEN LET search_start == Max(end0 - ParaWindow, pos)
                 m == ParaBreakEnd(PySlice(text, search_start, end0 + ParaWindow))
             IN  IF m # -1 THEN search_start + m ELSE end0
        ELSE end0

\* the position of the next window (line 124)
NextPos(end_pos) == end_pos - OverlapTokens * CharsPerToken

\* one iteration of the while loop (lines 76-124)
ChunkStep ==
    /\ ch_pc = "loop"
    /\ Len(chunks) < MaxChunks
    /\ current_pos < Len(ch_text)
    /\ LET end_pos == EndPos(ch_text, current_pos)
           chunk_text == Strip(PySlice(ch_text, current_pos, end_pos))
           chunk_pages == FindPages(chunk_text)
           page_start == IF chunk_pages # <<>> THEN chunk_pages[1] ELSE current_page
           page_end == IF chunk_pages # <<>> THEN chunk_pages[Len(chunk_pages)]
                       ELSE current_page
       IN  IF chunk_text = <<>>
           THEN /\ ch_pc' = "done"
                /\ UNCHANGED <<ch_text, current_pos, current_page, chunks, notChunkVars>>
           ELSE /\ chunks' = Append(chunks,
                        [content |-> chunk_text, page_start |-> page_start,
                         page_end |-> page_end, chunk_index |-> Len(chunks),
                         section_header |-> None])
                /\ current_page' = page_end
                /\ current_pos' = NextPos(end_pos)
                /\ UNCHANGED <<ch_text, ch_pc, notChunkVars>>

\* the loop condition fails: semantic_chunk returns (lines 76, 126-127)
ChunkReturn ==
    /\ ch_pc = "loop"
    /\ current_pos >= Len(ch_text)
    /\ ch_pc' = "done"
    /\ UNCHANGED <<ch_text, current_pos, current_page, chunks, notChunkVars>>

ChunkNext == ChunkStep \/ ChunkReturn

SpecChunk == ChunkInit /\ [][ChunkNext]_vars

\* the end of the window of the chunk appended last
LastEndPos == current_pos + OverlapTokens * CharsPerToken

\* C4: for a non-empty canonicalized text semantic_chunk terminates with a
\* non-empty list: once the chunk whose window reaches the end of the text
\* has been appended, the loop ends and no further chunk is appended.
C4_LoopEndsAfterLastChunk ==
    [][(ch_text # <<>> /\ chunks # <<>> /\ LastEndPos = Len(ch_text))
          => (chunks' = chunks /\ ch_pc' = "done")]_vars

SpecIngest == IngestInit /\ [][IngestNext]_vars

\* position of a status on the pipeline pending -> ... -> ready
Rank(st) ==
    CASE st = "pending" -> 0
      [] st = "extracting" -> 1
      [] st = "ocr" -> 2
      [] st = "canonicalizing" -> 3
      [] st = "chunking" -> 4
      [] st = "embedding" -> 5
      [] st = "ready" -> 6
      [] st = "failed" -> 7

-----------------------------------------------------------------------------
(***************************************************************************)
(* Sync gateway and approval queue: api/routers/ingest.py                  *)
(*                                                                         *)
(* Each request is served by a coroutine that is suspended at every await  *)
(* of the store; a step below is the code from one await to the next.     *)
(* Rows carry the columns the handlers read or write; a row's uuid4 is     *)
(* written as the model's key of the row.  Requests are the ones the sync  *)
(* agent sends: the parsed info is parse() of the path and the hash is     *)
(* "sha256:" + hexdigest (watcher.py _compute_hash).                       *)
(***************************************************************************)

MaxRequests == 4

\* paths on the NAS, as their segments below "/": root, client folder, ...
ClientFolder == "1001_A"
YearFolder == "2024"
PermanentFolder == "Permanent"
YearFile == <<"nas", ClientFolder, YearFolder, "a.pdf">>
TopFile == <<"nas", ClientFolder, "a.pdf">>
PermanentFileA == <<"nas", ClientFolder, PermanentFolder, "a.pdf">>
PermanentFileB == <<"nas", ClientFolder, PermanentFolder, "b.pdf">>
Paths == {YearFile, TopFile, PermanentFileA, PermanentFileB}

\* the files the agent may report: a path and the digest of its content
\* (PermanentFileA is seen with two contents, before and after an edit)
Files == {<<YearFile, "d2">>, <<TopFile, "d2">>, <<PermanentFileA, "d1">>,
          <<PermanentFileA, "d2">>, <<PermanentFileB, "d1">>}
Notes == {None, "note"}

\* datetime.now().year
CurrentYear == 2025

\* AUTO_APPROVE_HOURS (4 by default), in ticks of the model's clock; scaled
\* down so that the deadline of an item falls within MaxRequests ticks
AutoApproveHours == 2

\* a NULL year and a NULL timestamp
NoYear == -1
NoTime == 0

\* parser.py: the client folder pattern ^(?P<code>1\d{3})_(?P<name>.+)$ and
\* the year pattern ^(?P<year>20\d{2})$ on the folders of the model
client_code_of(folder) == IF folder = ClientFolder THEN "1001" ELSE None
year_of(folder) == IF folder = YearFolder THEN 2024 ELSE NoYear

\* FolderParser.parse for a path under the NAS root
parse(path) ==
    [client_code |-> client_code_of(path[2]),
     year |-> year_of(path[3]),
     is_permanent |-> (path[3] = PermanentFolder)]

\* _compute_hash: f"sha256:{hexdigest}"
compute_hash(digest) == <<"sha256:", digest>>

\* str.replace("sha256:", "")
RECURSIVE strip_sha256(_)
strip_sha256(h) ==
    IF h = <<>> THEN <<>>
    ELSE IF Head(h) = "sha256:" THEN strip_sha256(Tail(h))
    ELSE <<Head(h)>> \o strip_sha256(Tail(h))

\* nas_path.rsplit("/", n)[0]
rsplit_head(path, n) == SubSeq(path, 1, Max(Len(path) - n, 0))

ApiInit ==
    /\ ApiIdle
    /\ ChunkIdle
    /\ IngestIdle
    /\ WatchIdle
    /\ ClientIdle
    /\ SearchIdle
    /\ ScoreIdle
    /\ ParseIdle
    /\ ScanIdle
    /\ AgentIdle
    /\ RelIdle
    /\ ReindexIdle
    /\ CanonIdle
    /\ ParserIdle
    /\ PoolIdle
    /\ CollapseIdle
    /\ OcrIdle

\* the handler returns (or raises): the response goes out, its locals die
Respond(p, resp) ==
    /\ h_resp' = [h_resp EXCEPT ![p] = resp]
    /\ h_pc' = [h_pc EXCEPT ![p] = "idle"]
    /\ h_req' = [h_req EXCEPT ![p] = NoReq]
    /\ h_loc' = [h_loc EXCEPT ![p] = None]

\* the handler goes on to its next await with the locals loc
Continue(p, pc, loc) ==
    /\ h_pc' = [h_pc EXCEPT ![p] = pc]
    /\ h_loc' = [h_loc EXCEPT ![p] = loc]
    /\ UNCHANGED <<h_req, h_resp>>

\* a request arrives at an idle handler
Accept(p, req, pc, loc) ==
    /\ h_pc' = [h_pc EXCEPT ![p] = pc]
    /\ h_req' = [h_req EXCEPT ![p] = req]
    /\ h_loc' = [h_loc EXCEPT ![p] = loc]
    /\ UNCHANGED h_resp

\* an exception leaves the handler: HTTP 4xx/5xx (or status "error")
ErrorResponse(detail) == [status |-> "error", detail |-> detail]

\* a path lookup that finds no document
DocumentsByPath_Empty(nas_path) == {}

\* select(Document).where(Document.nas_full_path == nas_path)
DocumentsByPath(nas_path) == {d \in documents : d.nas_full_path = nas_path}

\* select(Document).where(Document.file_hash == file_hash)
DocumentsByHash(file_hash) == {d \in documents : d.file_hash = file_hash}

\* a document found again that is also restored
seen_again_Restored(existing, t) ==
    [existing EXCEPT !.last_seen_at = t, !.deleted_at = NoTime]

\* line 202: existing.last_seen_at = datetime.now(UTC)
seen_again(existing, t) == [existing EXCEPT !.last_seen_at = t]

\* lines 183-208: the request arrives, the path is looked up, and a document
\* found at the path is touched
file_arrived(p, files) ==
    /\ h_pc[p] = "idle"
    /\ now < MaxRequests
    /\ \E file \in files :
        LET req == [kind |-> "file_arrived", nas_path |-> file[1],
                    file_hash |-> compute_hash(file[2]),
                    parsed_info |-> parse(file[1])]
            existing == DocumentsByPath(req.nas_path)
        IN  /\ now' = now + 1
            /\ last_file_event' = now'
            /\ IF req.parsed_info.client_code = None
               THEN /\ Respond(p, ErrorResponse("No client code in parsed path"))
                    /\ UNCHANGED storeVars
               ELSE IF existing # {}
               THEN LET d == CHOOSE d \in existing : TRUE
                    IN  /\ documents' = (documents \ {d})
                               \cup {seen_again(d, now')}
                        /\ Respond(p, [status |-> "duplicate",
                                       existing_document_id |-> d.id])
                        /\ UNCHANGED <<clients, cases, sync_queue, sent_tasks>>
               ELSE /\ Accept(p, req, "hash_check", None)
                    /\ UNCHANGED storeVars
    /\ UNCHANGED notApiVars

FileArrived(p) == file_arrived(p, Files)

\* lines 210-221
HashCheck(p) ==
    /\ h_pc[p] = "hash_check"
    /\ LET hash_match == IF h_req[p].file_hash # <<>>
                         THEN DocumentsByHash(h_req[p].file_hash) ELSE {}
       IN  IF Cardinality(hash_match) > 1
           THEN Respond(p, ErrorResponse("MultipleResultsFound"))
           ELSE IF hash_match # {}
           THEN Respond(p, [status |-> "duplicate",
                            existing_document_id |->
                                (CHOOSE d \in hash_match : TRUE).id])
           ELSE Continue(p, "client_lookup", None)
    /\ UNCHANGED <<storeVars, now, last_file_event, notApiVars>>

\* _get_or_queue_client, lines 614-620
ClientLookup(p) ==
    /\ h_pc[p] = "client_lookup"
    /\ LET found == {c \in clients : c.client_code = h_req[p].parsed_info.client_code}
       IN  IF found = {}
           THEN Continue(p, "client_queue", None)
           ELSE LET client == CHOOSE c \in found : TRUE
                IN  IF client.approval_status = "approved"
                    THEN Continue(p, "case_lookup", [client |-> client.id])
                    ELSE Continue(p, "client_pending", None)
    /\ UNCHANGED <<storeVars, now, last_file_event, notApiVars>>

\* the unique index on sync_queue.nas_path (models.py line 432)
QueuePathTaken(nas_path) == \E q \in sync_queue : q.nas_path = nas_path

\* _get_or_queue_client, lines 622-637
ClientQueue(p) ==
    /\ h_pc[p] = "client_queue"
    /\ LET item == [id |-> rsplit_head(h_req[p].nas_path, 2),
                    item_type |-> "client",
                    nas_path |-> rsplit_head(h_req[p].nas_path, 2),
                    parsed_data |-> [client_code |-> h_req[p].parsed_info.client_code],
                    status |-> "pending", auto_approve_at |-> now + AutoApproveHours,
                    reviewed_at |-> NoTime, notes |-> None]
       IN  IF QueuePathTaken(item.nas_path)
           THEN /\ Respond(p, ErrorResponse("IntegrityError sync_queue.nas_path"))
                /\ UNCHANGED sync_queue
           ELSE /\ sync_queue' = sync_queue \cup {item}
                /\ Continue(p, "client_pending", None)
    /\ UNCHANGED <<clients, cases, documents, sent_tasks, now, last_file_event,
                   notApiVars>>

\* SyncQueueItem.nas_path.like(f"%{client_code}_%") on a folder path
like_client_code(nas_path, code) ==
    \E i \in 1..Len(nas_path) : client_code_of(nas_path[i]) = code

\* lines 232-245
ClientPending(p) ==
    /\ h_pc[p] = "client_pending"
    /\ LET matching == {q \in sync_queue :
                           /\ q.item_type = "client"
                           /\ like_client_code(q.nas_path,
                                               h_req[p].parsed_info.client_code)}
       IN  \E qid \in IF matching = {} THEN {<<>>} ELSE {q.id : q \in matching} :
               Respond(p, [status |-> "pending_approval", queue_item_id |-> qid])
    /\ UNCHANGED <<storeVars, now, last_file_event, notApiVars>>

\* _get_or_queue_case, lines 654-662 and 680-695
CaseLookup(p) ==
    /\ h_pc[p] = "case_lookup"
    /\ LET parsed == h_req[p].parsed_info
           year == IF parsed.year = NoYear THEN CurrentYear ELSE parsed.year
           found == IF parsed.is_permanent
                    THEN {c \in cases : c.client_id = h_loc[p].client /\ c.is_permanent}
                    ELSE {c \in cases : c.client_id = h_loc[p].client /\ c.tax_year = year}
       IN  IF Cardinality(found) > 1
           THEN Respond(p, ErrorResponse("MultipleResultsFound"))
           ELSE IF found # {}
           THEN Continue(p, "insert_document",
                         [client |-> h_loc[p].client,
                          case |-> (CHOOSE c \in found : TRUE).id])
           ELSE Continue(p, IF parsed.is_permanent THEN "case_create" ELSE "case_queue",
                         h_loc[p])
    /\ UNCHANGED <<storeVars, now, last_file_event, notApiVars>>

\* a fresh primary key for a row of cases (uuid4)
NewCaseId == Cardinality(cases) + 1

\* _get_or_queue_case, lines 664-678: the permanent case is created
CaseCreate(p) ==
    /\ h_pc[p] = "case_create"
    /\ cases' = cases \cup {[id |-> NewCaseId, client_id |-> h_loc[p].client,
                             tax_year |-> 0, is_permanent |-> TRUE]}
    /\ Continue(p, "insert_document", [client |-> h_loc[p].client, case |-> NewCaseId])
    /\ UNCHANGED <<clients, documents, sync_queue, sent_tasks, now,
                   last_file_event, notApiVars>>

\* _get_or_queue_case, lines 697-712, and lines 256-261
CaseQueue(p) ==
    /\ h_pc[p] = "case_queue"
    /\ LET parsed == h_req[p].parsed_info
           item == [id |-> rsplit_head(h_req[p].nas_path, 1),
                    item_type |-> "case",
                    nas_path |-> rsplit_head(h_req[p].nas_path, 1),
                    parsed_data |->
                        [client_id |-> h_loc[p].client,
                         client_code |-> parsed.client_code,
                         year |-> IF parsed.year = NoYear THEN CurrentYear
                                  ELSE parsed.year],
                    status |-> "pending", auto_approve_at |-> now + AutoApproveHours,
                    reviewed_at |-> NoTime, notes |-> None]
       IN  IF QueuePathTaken(item.nas_path)
           THEN /\ Respond(p, ErrorResponse("IntegrityError sync_queue.nas_path"))
                /\ UNCHANGED sync_queue
           ELSE /\ sync_queue' = sync_queue \cup {item}
                /\ Respond(p, [status |-> "pending_approval", queue_item_id |-> <<>>])
    /\ UNCHANGED <<clients, cases, documents, sent_tasks, now, last_file_event,
                   notApiVars>>

\* the unique indexes on documents.nas_full_path and documents.storage_key
\* (models.py lines 157, 193-195)
DocumentPathTaken(nas_path) == DocumentsByPath(nas_path) # {}

\* celery_app.send_task("tasks.ingest.ingest_document", args=[id])
send_task(sent, id) ==
    [i \in DOMAIN sent \cup {id} |->
        IF i = id THEN (IF i \in DOMAIN sent THEN sent[i] + 1 ELSE 1) ELSE sent[i]]

\* lines 263-294: the document is inserted and its ingestion task sent
InsertDocument(p) ==
    /\ h_pc[p] = "insert_document"
    /\ LET req == h_req[p]
           document == [id |-> req.nas_path, case_id |-> h_loc[p].case,
                        nas_full_path |-> req.nas_path,
                        file_hash |-> IF req.file_hash # <<>>
                                      THEN strip_sha256(req.file_hash) ELSE <<>>,
                        processing_status |-> "pending",
                        last_seen_at |-> now, deleted_at |-> NoTime]
       IN  IF DocumentPathTaken(req.nas_path)
           THEN /\ Respond(p, ErrorResponse("IntegrityError documents.nas_full_path"))
                /\ UNCHANGED <<documents, sent_tasks>>
           ELSE /\ documents' = documents \cup {document}
                /\ sent_tasks' = send_task(sent_tasks, document.id)
                /\ Respond(p, [status |-> "queued", document_id |-> document.id])
    /\ UNCHANGED <<clients, cases, sync_queue, now, last_file_event, notApiVars>>

\* select(SyncQueueItem).where(SyncQueueItem.id == item_id)
QueueItemById(item_id) == {q \in sync_queue : q.id = item_id}

\* a status check that lets every item through
AlreadyResolved_Never(item) == FALSE

\* lines 416 and 455: item.status != "pending"
AlreadyResolved(item) == item.status # "pending"

\* the item ids an admin may name: the items of the queue and an unknown id
ItemIds == {q.id : q \in sync_queue} \cup {<<"unknown">>}

\* lines 407-420 and 446-459: the item is loaded and checked
ReviewRequest(p, kind) ==
    /\ h_pc[p] = "idle"
    /\ now < MaxRequests
    /\ \E item_id \in ItemIds, notes \in Notes :
        LET req == [kind |-> kind, item_id |-> item_id, notes |-> notes]
            found == QueueItemById(item_id)
        IN  /\ now' = now + 1
            /\ IF found = {}
               THEN Respond(p, ErrorResponse("Queue item not found"))
               ELSE LET item == CHOOSE q \in found : TRUE
                    IN  IF AlreadyResolved(item)
                        THEN Respond(p, ErrorResponse("Item already resolved"))
                        ELSE Accept(p, req,
                                    IF kind = "approve" THEN "approve_create"
                                    ELSE "review_update",
                                    [item |-> item])
    /\ UNCHANGED <<storeVars, last_file_event, notApiVars>>

\* approve_queue_item, lines 400-420
Approve(p) == ReviewRequest(p, "approve")

\* reject_queue_item, lines 439-459
Reject(p) == ReviewRequest(p, "reject")

\* the unique index on clients.client_code (models.py line 37)
ClientCodeTaken(code) == \E c \in clients : c.client_code = code

\* lines 422-426: _create_client_from_queue / _create_case_from_queue
ApproveCreate(p) ==
    /\ h_pc[p] = "approve_create"
    /\ LET item == h_loc[p].item
       IN  IF item.item_type = "client"
           THEN IF ClientCodeTaken(item.parsed_data.client_code)
                THEN /\ Respond(p, ErrorResponse("IntegrityError clients.client_code"))
                     /\ UNCHANGED <<clients, cases>>
                ELSE /\ clients' = clients \cup
                            {[id |-> item.parsed_data.client_code,
                              client_code |-> item.parsed_data.client_code,
                              approval_status |-> "approved",
                              nas_folder_path |-> item.nas_path]}
                     /\ Continue(p, "review_update", h_loc[p])
                     /\ UNCHANGED cases
           ELSE /\ cases' = cases \cup
                       {[id |-> NewCaseId, client_id |-> item.parsed_data.client_id,
                         tax_year |-> item.parsed_data.year, is_permanent |-> FALSE]}
                /\ Continue(p, "review_update", h_loc[p])
                /\ UNCHANGED clients
    /\ UNCHANGED <<documents, sync_queue, sent_tasks, now, last_file_event,
                   notApiVars>>

\* lines 428-436 and 461-468: the loaded item is updated and committed
ReviewUpdate(p) ==
    /\ h_pc[p] = "review_update"
    /\ LET req == h_req[p]
           status == IF req.kind = "approve" THEN "approved" ELSE "rejected"
       IN  /\ sync_queue' =
                {IF q.id = req.item_id
                 THEN [q EXCEPT !.status = status, !.reviewed_at = now,
                                !.notes = IF req.notes # None THEN req.notes ELSE @]
                 ELSE q : q \in sync_queue}
           /\ Respond(p, [status |-> status, item_id |-> req.item_id])
    /\ UNCHANGED <<clients, cases, documents, sent_tasks, now, last_file_event,
                   notApiVars>>

ApiNext ==
    \E p \in Procs :
        \/ FileArrived(p) \/ HashCheck(p) \/ ClientLookup(p) \/ ClientQueue(p)
        \/ ClientPending(p) \/ CaseLookup(p) \/ CaseCreate(p) \/ CaseQueue(p)
        \/ InsertDocument(p)
        \/ Approve(p) \/ Reject(p) \/ ApproveCreate(p) \/ ReviewUpdate(p)

SpecApi == ApiInit /\ [][ApiNext]_vars

-----------------------------------------------------------------------------
(***************************************************************************)
(* Properties of the sync gateway                                          *)
(***************************************************************************)

\* the step is the first step of a file-arrived request
IsFileArrived == last_file_event' # last_file_event

\* the step is the first step of an approve or reject request
IsReview == now' # now /\ last_file_event' = last_file_event

\* handler p may be the one that takes the step: the others stay as they are
Acts(p) ==
    \A o \in Procs \ {p} :
        h_pc'[o] = h_pc[o] /\ h_resp'[o] = h_resp[o] /\ h_req'[o] = h_req[o]

\* the step ends a file-arrived request of handler p that found its client
\* unknown or unapproved, or its year case missing
EndsUnresolved(p) ==
    /\ h_pc[p] \in {"client_queue", "client_pending", "case_queue"}
    /\ h_pc'[p] = "idle"

\* every document references an existing case of an approved client
DocumentsResolved ==
    \A d \in documents :
        \E c \in cases :
            /\ c.id = d.case_id
            /\ \E cl \in clients : cl.id = c.client_id /\ cl.approval_status = "approved"

\* C5: every Document created by file-arrived references an existing case
\* whose client is approved, and a file-arrived call that finds its client
\* unknown or unapproved, or its year case missing, answers pending_approval,
\* creates no Document and sends no ingestion task.
C5_OnlyResolvedFilesBecomeDocuments ==
    /\ []DocumentsResolved
    /\ [][\A p \in Procs :
             EndsUnresolved(p) =>
                 /\ h_resp'[p].status = "pending_approval"
                 /\ documents' = documents
                 /\ sent_tasks' = sent_tasks]_vars

\* C6: a file-arrived call whose content hash is the hash of a Document
\* created from another path answers duplicate with that document's id, and
\* no two Documents hold the same content hash.
C6_SameHashIsDuplicate ==
    /\ [](\A d1, d2 \in documents : d1.file_hash = d2.file_hash => d1 = d2)
    /\ [][\A p \in Procs :
             (/\ h_pc[p] = "hash_check"
              /\ h_pc'[p] # "hash_check"
              /\ \E d \in documents :
                    /\ d.file_hash = strip_sha256(h_req[p].file_hash)
                    /\ d.nas_full_path # h_req[p].nas_path)
             => /\ h_resp'[p].status = "duplicate"
                /\ \E d \in documents :
                      /\ d.file_hash = strip_sha256(h_req[p].file_hash)
                      /\ h_resp'[p].existing_document_id = d.id]_vars

\* C7: at most one Document exists per source path; a file-arrived call for
\* the path of an existing Document answers duplicate with that document's
\* id, changes only that document's last_seen_at, creates no Document and
\* sends no ingestion task (it never goes on to the later steps).
C7_OneDocumentPerPath ==
    /\ [](\A d1, d2 \in documents :
             d1.nas_full_path = d2.nas_full_path => d1 = d2)
    /\ [][IsFileArrived =>
             \E p \in Procs :
                 /\ h_pc[p] = "idle"
                 /\ Acts(p)
                 /\ IF h_pc'[p] = "hash_check"
                    THEN DocumentsByPath(h_req'[p].nas_path) = {}
                    ELSE /\ h_resp'[p].status = "duplicate"
                         /\ \E d \in documents :
                               /\ h_resp'[p].existing_document_id = d.id
                               /\ documents' = (documents \ {d})
                                      \cup {[d EXCEPT !.last_seen_at = now']}
                         /\ UNCHANGED <<clients, cases, sync_queue, sent_tasks>>]_vars

C7_Witness ==
    \E p \in Procs :
        /\ h_resp[p].status = "duplicate"
        /\ \E d \in documents :
              /\ d.id = h_resp[p].existing_document_id
              /\ d.last_seen_at = now

\* C8: when two file-arrived requests for the same file are handled
\* concurrently, the store's rejection of the second insert is never
\* answered as an error.
C8_RejectedInsertIsDuplicate ==
    \A p \in Procs :
        h_resp[p] # ErrorResponse("IntegrityError documents.nas_full_path")

\* C9: the queue holds at most one item per not-yet-known client and per
\* not-yet-known year case, and no file-arrived call for such an entity is
\* answered with the store's rejection of a second item.
C9_OneQueueItemPerEntity ==
    /\ \A q1, q2 \in sync_queue :
          (q1.item_type = q2.item_type /\ q1.parsed_data = q2.parsed_data)
              => q1 = q2
    /\ \A p \in Procs :
          h_resp[p] # ErrorResponse("IntegrityError sync_queue.nas_path")

\* C10: an item that has left pending never becomes pending again, and an
\* approve or reject request on an item that is not pending fails with an
\* error and changes no item, client or case (only a request that found its
\* item pending goes on).
C10_ReviewOnlyFromPending ==
    [][/\ \A q \in sync_queue :
             q.status # "pending" =>
                 \E r \in sync_queue' : r.id = q.id /\ r.status # "pending"
       /\ IsReview =>
             \E p \in Procs :
                 /\ h_pc[p] = "idle"
                 /\ Acts(p)
                 /\ IF h_pc'[p] # "idle"
                    THEN /\ h_loc'[p].item \in sync_queue
                         /\ h_loc'[p].item.id = h_req'[p].item_id
                         /\ h_loc'[p].item.status = "pending"
                    ELSE /\ h_resp'[p].status = "error"
                         /\ UNCHANGED storeVars]_vars

C10_Witness ==
    \E p \in Procs :
        /\ h_resp[p] = ErrorResponse("Item already resolved")
        /\ \E q \in sync_queue : q.status # "pending" /\ q.reviewed_at # NoTime

\* C11: a pending item is not approved before its auto-approve deadline
\* without a review request, and it is no longer pending once the clock has
\* reached the deadline.
C11_AutoApprovedAtDeadline ==
    /\ [](\A q \in sync_queue : q.status = "pending" => now < q.auto_approve_at)
    /\ [][\A q \in sync_queue :
             (q.status = "pending" /\ now' < q.auto_approve_at
                 /\ \A p \in Procs : h_pc[p] # "review_update")
             => q \in sync_queue']_vars

\* C12: file-arrived events for files of the permanent folder of an approved
\* client never queue a case item, are never answered with a failed case
\* lookup, and leave at most one permanent case for the client.
C12_OnePermanentCase ==
    /\ \A p \in Procs :
          h_pc[p] = "case_queue" => ~h_req[p].parsed_info.is_permanent
    /\ \A cl \in clients :
          Cardinality({c \in cases : c.client_id = cl.id /\ c.is_permanent}) <= 1
    /\ \A p \in Procs : h_resp[p] # ErrorResponse("MultipleResultsFound")

-----------------------------------------------------------------------------
(***************************************************************************)
(* Watcher of the sync agent: nas_sync/watcher.py                          *)
(*                                                                         *)
(* The observer thread runs the on_* callbacks; run_processing_loop is a   *)
(* coroutine of the event loop's thread.  The two threads share            *)
(* pending_events without a lock, so a callback may run between any two    *)
(* statements of process_pending.  The signal handler that stops the       *)
(* watcher runs in the event loop's thread, hence only while the coroutine *)
(* is suspended at an await.                                               *)
(***************************************************************************)

MaxRawEvents == 3
MaxClock == 3

\* config.nas.debounce_seconds (2 by default), in ticks of wt_clock; scaled
\* down so that an event passes the window within MaxClock ticks
DebounceSeconds == 1

\* on_created, on_modified, on_deleted (on_moved is a deleted and a created)
EventTypes == {"created", "modified", "deleted"}

WatchInit ==
    /\ pending_events = <<>>
    /\ wt_clock = 0
    /\ running = TRUE
    /\ observing = TRUE
    /\ d_pc = "loop"
    /\ to_process = <<>>
    /\ paths_to_remove = <<>>
    /\ dispatched = <<>>
    /\ raw_log = [path \in WatchPaths |-> <<>>]
    /\ api_closed = FALSE
    /\ ChunkIdle
    /\ IngestIdle
    /\ ApiIdle
    /\ ClientIdle
    /\ SearchIdle
    /\ ScoreIdle
    /\ ParseIdle
    /\ ScanIdle
    /\ AgentIdle
    /\ RelIdle
    /\ ReindexIdle
    /\ CanonIdle
    /\ ParserIdle
    /\ PoolIdle
    /\ CollapseIdle
    /\ OcrIdle

\* the positions of path in the dict
KeyIndex(dict, path) == {i \in DOMAIN dict : dict[i].path = path}

\* an assignment that leaves the event type of an existing entry as it was
schedule_processing_KeepType(dict, path, event_type, time) ==
    IF KeyIndex(dict, path) = {}
    THEN Append(dict, [path |-> path, time |-> time, type |-> event_type])
    ELSE [i \in DOMAIN dict |->
             IF dict[i].path = path THEN [dict[i] EXCEPT !.time = time] ELSE dict[i]]

\* _schedule_processing: self.pending_events[path] = {"time": ..., "type": ...}
\* (a dict keeps the position of a key that is assigned again)
schedule_processing(dict, path, event_type, time) ==
    IF KeyIndex(dict, path) = {}
    THEN Append(dict, [path |-> path, time |-> time, type |-> event_type])
    ELSE [i \in DOMAIN dict |->
             IF dict[i].path = path
             THEN [path |-> path, time |-> time, type |-> event_type]
             ELSE dict[i]]

\* del self.pending_events[path]
del(dict, path) == SelectSeq(dict, LAMBDA e : e.path # path)

RawEventCount ==
    LET RECURSIVE Sum(_)
        Sum(S) == IF S = {} THEN 0
                  ELSE LET x == CHOOSE x \in S : TRUE
                       IN  Len(raw_log[x]) + Sum(S \ {x})
    IN  Sum(WatchPaths)

\* the observer thread calls on_created / on_modified / on_deleted
RawEvent ==
    /\ observing
    /\ RawEventCount < MaxRawEvents
    /\ \E path \in WatchPaths, event_type \in EventTypes :
          /\ pending_events' =
                 schedule_processing(pending_events, path, event_type, wt_clock)
          /\ raw_log' = [raw_log EXCEPT ![path] = Append(@, event_type)]
    /\ UNCHANGED <<wt_clock, running, observing, d_pc, to_process,
                   paths_to_remove, dispatched, api_closed, notWatchVars>>

\* time passes
Tick ==
    /\ wt_clock < MaxClock
    /\ ~api_closed
    /\ wt_clock' = wt_clock + 1
    /\ UNCHANGED <<pending_events, running, observing, d_pc, to_process,
                   paths_to_remove, dispatched, raw_log, api_closed, notWatchVars>>

\* process_pending, lines 97-106: the entries older than the debounce window
Due(dict, now_) == SelectSeq(dict, LAMBDA e : e.time < now_ - DebounceSeconds)

\* lines 97-106 of a call of process_pending made at position from
Snapshot(from, to) ==
    /\ d_pc = from
    /\ d_pc' = to
    /\ to_process' = [i \in DOMAIN Due(pending_events, wt_clock) |->
                         <<Due(pending_events, wt_clock)[i].path,
                           Due(pending_events, wt_clock)[i].type>>]
    /\ paths_to_remove' = [i \in DOMAIN Due(pending_events, wt_clock) |->
                              Due(pending_events, wt_clock)[i].path]
    /\ UNCHANGED <<pending_events, wt_clock, running, observing, dispatched,
                   raw_log, api_closed, notWatchVars>>

\* lines 108-109, one iteration (or the end of the loop)
RemoveStep(from, to) ==
    /\ d_pc = from
    /\ IF paths_to_remove = <<>>
       THEN /\ d_pc' = to
            /\ UNCHANGED <<pending_events, paths_to_remove>>
       ELSE /\ pending_events' = del(pending_events, Head(paths_to_remove))
            /\ paths_to_remove' = Tail(paths_to_remove)
            /\ UNCHANGED d_pc
    /\ UNCHANGED <<wt_clock, running, observing, to_process, dispatched,
                   raw_log, api_closed, notWatchVars>>

\* lines 111-120, one iteration (or the end of the loop): _process_file is
\* awaited; an exception it raises is logged
DispatchStep(from, to) ==
    /\ d_pc = from
    /\ IF to_process = <<>>
       THEN /\ d_pc' = to
            /\ UNCHANGED <<to_process, dispatched>>
       ELSE /\ dispatched' = Append(dispatched, Head(to_process))
            /\ to_process' = Tail(to_process)
            /\ UNCHANGED d_pc
    /\ UNCHANGED <<pending_events, wt_clock, running, observing,
                   paths_to_remove, raw_log, api_closed, notWatchVars>>

\* run_processing_loop, lines 257-258: while self._running
ProcessPending == running /\ Snapshot("loop", "remove")

Remove == RemoveStep("remove", "dispatch")

\* lines 258-259: the dispatches, then asyncio.sleep(0.5)
Dispatch == DispatchStep("dispatch", "loop")

\* lines 261-262: the loop has ended
FinalProcessPending == ~running /\ Snapshot("loop", "final_remove")

FinalRemove == RemoveStep("final_remove", "final_dispatch")

FinalDispatch == DispatchStep("final_dispatch", "close")

\* lines 264-265
Close ==
    /\ d_pc = "close"
    /\ d_pc' = "returned"
    /\ api_closed' = TRUE
    /\ UNCHANGED <<pending_events, wt_clock, running, observing, to_process,
                   paths_to_remove, dispatched, raw_log, notWatchVars>>

\* NASWatcher.stop, called by the signal handler (main.py lines 86-91)
Stop ==
    /\ running
    /\ d_pc \in {"loop", "dispatch"}
    /\ running' = FALSE
    /\ observing' = FALSE
    /\ UNCHANGED <<pending_events, wt_clock, d_pc, to_process, paths_to_remove,
                   dispatched, raw_log, api_closed, notWatchVars>>

WatchNext ==
    \/ RawEvent \/ Tick \/ ProcessPending \/ Remove \/ Dispatch
    \/ FinalProcessPending \/ FinalRemove \/ FinalDispatch \/ Close \/ Stop

SpecWatch == WatchInit /\ [][WatchNext]_vars

\* the step is the start of a drain (a call of process_pending)
IsDrainStart == d_pc = "loop" /\ d_pc' \in {"remove", "final_remove"}

\* the entries of seq that are for path
ForPath(seq, path) == {j \in DOMAIN seq : seq[j][1] = path}

\* C14: a drain schedules at most one dispatch per path, exactly one for a
\* path whose pending entry is past the debounce window, and its type is the
\* type of the last raw event received for the path; the dispatches made are
\* the scheduled ones.
C14_LastEventWins ==
    [][/\ IsDrainStart =>
             \A path \in WatchPaths :
                 /\ Cardinality(ForPath(to_process', path)) <= 1
                 /\ (\E i \in DOMAIN pending_events :
                        /\ pending_events[i].path = path
                        /\ pending_events[i].time < wt_clock - DebounceSeconds)
                    => Cardinality(ForPath(to_process', path)) = 1
                 /\ \A j \in ForPath(to_process', path) :
                        /\ raw_log[path] # <<>>
                        /\ to_process'[j][2] = raw_log[path][Len(raw_log[path])]
       /\ dispatched' # dispatched =>
             /\ to_process # <<>>
             /\ dispatched' = Append(dispatched, Head(to_process))]_vars

C14_Witness ==
    \E path \in WatchPaths :
        /\ Len(raw_log[path]) = 2
        /\ raw_log[path][1] # raw_log[path][2]
        /\ dispatched = << <<path, raw_log[path][2]>> >>

\* C15: an entry is removed from pending_events only if the event it holds
\* is scheduled for dispatch by the drain in progress.
C15_DrainLosesNoEvent ==
    [][\A i \in DOMAIN pending_events :
          KeyIndex(pending_events', pending_events[i].path) = {}
          => \E j \in DOMAIN to_process :
                to_process[j] = <<pending_events[i].path, pending_events[i].type>>]_vars

\* C16: when run_processing_loop returns, and when the API client is closed,
\* no event is left in the pending map or waiting for its dispatch.
C16_ShutdownDrainsAll ==
    (d_pc = "returned" \/ api_closed) =>
        /\ pending_events = <<>>
        /\ to_process = <<>>

-----------------------------------------------------------------------------
(***************************************************************************)
(* API client of the sync agent: nas_sync/api_client.py                    *)
(*                                                                         *)
(* notify_file_arrived, notify_file_deleted and send_heartbeat are wrapped *)
(* by tenacity's @retry(retry=retry_if_exception_type((NetworkError,       *)
(* TimeoutException)), stop=stop_after_attempt(3), wait=wait_exponential(  *)
(* multiplier=1, min=1, max=10)); the decorator is given no reraise and no *)
(* retry_error_callback, so it raises RetryError when it stops.            *)
(***************************************************************************)

MaxCalls == 2

\* stop_after_attempt(3)
StopAfterAttempt == 3

\* wait_exponential(multiplier=1, min=1, max=10)
WaitMultiplier == 1
WaitMin == 1
WaitMax == 10

Methods == {"notify_file_arrived", "notify_file_deleted", "send_heartbeat"}

\* what one HTTP attempt may do: a 2xx response, a 4xx/5xx response
\* (raise_for_status), httpx.NetworkError, httpx.TimeoutException, or
\* another exception (a body that is not the expected JSON)
Outcomes == {"ok", "status_error", "network_error", "timeout", "other_error"}

ClientInit ==
    /\ c_pc = "idle"
    /\ c_call = None
    /\ c_attempts = <<>>
    /\ c_slept = 0
    /\ c_result = NoResult
    /\ c_calls = 0
    /\ ChunkIdle
    /\ IngestIdle
    /\ ApiIdle
    /\ WatchIdle
    /\ SearchIdle
    /\ ScoreIdle
    /\ ParseIdle
    /\ ScanIdle
    /\ AgentIdle
    /\ RelIdle
    /\ ReindexIdle
    /\ CanonIdle
    /\ ParserIdle
    /\ PoolIdle
    /\ CollapseIdle
    /\ OcrIdle

\* a retry condition that retries after any exception
retry_if_exception_type_Any(outcome) ==
    outcome \in {"network_error", "timeout", "other_error"}

\* retry_if_exception_type((httpx.NetworkError, httpx.TimeoutException))
retry_if_exception_type(outcome) == outcome \in {"network_error", "timeout"}

\* stop_after_attempt(3): attempt_number >= max_attempt_number
stop_after_attempt(attempt_number) == attempt_number >= StopAfterAttempt

RECURSIVE Pow2(_)
Pow2(n) == IF n <= 0 THEN 1 ELSE 2 * Pow2(n - 1)

\* wait_exponential: max(min, min(2 ** (attempt_number - 1) * multiplier, max))
wait_exponential(attempt_number) ==
    Max(WaitMin, Min(Pow2(attempt_number - 1) * WaitMultiplier, WaitMax))

Returned(value) == [how |-> "returned", value |-> value]
Raised(exception) == [how |-> "raised", value |-> exception]

\* the body of the method on a 2xx response
OnSuccess(method) ==
    IF method = "send_heartbeat" THEN Returned("True") ELSE Returned("ok")

\* the except httpx.HTTPStatusError branch of the method
OnStatusError(method) ==
    IF method = "send_heartbeat" THEN Returned("False") ELSE Returned("error")

\* the watcher, the scanner or the heartbeat loop calls a method
Call ==
    /\ c_pc \in {"idle", "done"}
    /\ c_calls < MaxCalls
    /\ \E method \in Methods : c_call' = method
    /\ c_pc' = "attempt"
    /\ c_attempts' = <<>>
    /\ c_slept' = 0
    /\ c_result' = NoResult
    /\ c_calls' = c_calls + 1
    /\ UNCHANGED notClientVars

\* one run of the method's body under the retry decorator
Attempt ==
    /\ c_pc = "attempt"
    /\ \E outcome \in Outcomes :
        LET attempt_number == Len(c_attempts) + 1
        IN  /\ c_attempts' = Append(c_attempts, outcome)
            /\ IF outcome = "ok"
               THEN c_pc' = "done" /\ c_result' = OnSuccess(c_call)
               ELSE IF outcome = "status_error"
               THEN c_pc' = "done" /\ c_result' = OnStatusError(c_call)
               ELSE IF ~retry_if_exception_type(outcome)
               THEN c_pc' = "done" /\ c_result' = Raised(outcome)
               ELSE IF stop_after_attempt(attempt_number)
               THEN c_pc' = "done" /\ c_result' = Raised("RetryError")
               ELSE c_pc' = "wait" /\ UNCHANGED c_result
    /\ UNCHANGED <<c_call, c_slept, c_calls, notClientVars>>

\* the decorator sleeps before the next attempt
Wait ==
    /\ c_pc = "wait"
    /\ c_pc' = "attempt"
    /\ c_slept' = c_slept + wait_exponential(Len(c_attempts))
    /\ UNCHANGED <<c_call, c_attempts, c_result, c_calls, notClientVars>>

ClientNext == Call \/ Attempt \/ Wait

SpecClient == ClientInit /\ [][ClientNext]_vars

\* the attempts of the call before its last one
Earlier == {i \in DOMAIN c_attempts : i < Len(c_attempts)}

\* C17: a call makes at most 3 HTTP attempts, every attempt but the last
\* failed with a network or timeout error, and a call whose last attempt got
\* an HTTP status-error response has ended with an error status (False for
\* the heartbeat).
C17_BoundedRetryOnTransportErrors ==
    /\ Len(c_attempts) <= 3
    /\ \A i \in Earlier : c_attempts[i] \in {"network_error", "timeout"}
    /\ (c_attempts # <<>> /\ c_attempts[Len(c_attempts)] = "status_error") =>
          /\ c_pc = "done"
          /\ c_result = IF c_call = "send_heartbeat" THEN Returned("False")
                        ELSE Returned("error")

C17_Witness ==
    /\ c_pc = "done"
    /\ c_attempts = <<"timeout", "network_error", "status_error">>
    /\ c_result = Returned("error")

\* C18: a file-arrived or file-deleted notification whose every attempt
\* failed with a network or timeout error returns a response with status
\* error to its caller.
C18_ExhaustionReturnsError ==
    (/\ c_pc = "done"
     /\ c_call \in {"notify_file_arrived", "notify_file_deleted"}
     /\ \A i \in DOMAIN c_attempts : c_attempts[i] \in {"network_error", "timeout"})
    => c_result = Returned("error")

\* C19: the chunks of a canonicalized text, in the order of their index,
\* have the chunk_index values 0..n-1, and no chunk ends more than one page
\* after the page on which the next chunk starts.
C19_ChunksContiguous ==
    /\ \A i \in DOMAIN chunks : chunks[i].chunk_index = i - 1
    /\ \A i \in 1..(Len(chunks) - 1) :
          chunks[i].page_end <= chunks[i + 1].page_start + 1

-----------------------------------------------------------------------------
(***************************************************************************)
(* Hybrid search: api/services/search.py                                   *)
(*                                                                         *)
(* search runs one SELECT over document_chunks joined with documents; it   *)
(* sees the rows committed by the worker (store_chunks commits all the     *)
(* chunks of a run at once) and the committed processing_status.  It is    *)
(* run here against the document of the ingest_document machine.           *)
(***************************************************************************)

MaxSearches == 2

\* top_k, scaled down to the number of chunks of the document
TopK == 2

\* a filter that also admits a document whose chunks are being embedded
Eligible_Embedding(status) == status \in {"ready", "embedding"}

\* .where(Document.processing_status == "ready")
Eligible(status) == status = "ready"

\* the rows of document_chunks the statement selects (every stored chunk has
\* an embedding), by their position in doc_chunks
Matching == IF Eligible(processing_status) THEN DOMAIN doc_chunks ELSE {}

\* HybridSearchService.search: the top_k matching rows by score
Search ==
    /\ s_count < MaxSearches
    /\ s_count' = s_count + 1
    /\ \E rows \in SUBSET Matching :
          /\ Cardinality(rows) = Min(TopK, Cardinality(Matching))
          /\ s_result' = rows
    /\ UNCHANGED notSearchVars

SearchNext == IngestNext \/ Search

SpecSearch == IngestInit /\ [][SearchNext]_vars

\* C20: a search returns chunks only if, at the time of the query, their
\* document has processing_status ready; it returns stored chunks only.
C20_SearchReturnsReadyOnly ==
    [][s_count' # s_count =>
          /\ s_result' \subseteq DOMAIN doc_chunks
          /\ s_result' # {} => processing_status = "ready"]_vars

C20_Witness ==
    /\ s_result # {}
    /\ processing_status \notin {"ready", "failed"}
    /\ deliveries > 1


(***************************************************************************)
(* Hybrid search scoring (apps/api/services/search.py).  Scores and        *)
(* weights are fixed-point numbers: ScoreUnit stands for 1.0, so a product *)
(* of a score and a weight is in units of 1 / (ScoreUnit * ScoreUnit).     *)
(* Clamping is monotone, so the fixed-point image of the float computation *)
(* is exact for the comparison against 0.0 and 1.0.                        *)
(***************************************************************************)
MaxRows == 2
ScoreUnit == 10

\* 1 - cosine_distance, with cosine distance in [0, 2].
VectorScores == {-10, -4, 5, 10}

\* ts_rank is non-negative and not bounded by 1.
FtsScores == {0, 6, 12}

\* vector_weight and fts_weight are caller-supplied floats.
Weights == {-5, 0, 3, 7, 10, 15}

ScoreRows == [vector_score : VectorScores, fts_score : FtsScores]

ScoreInit ==
    /\ sv_rows \in {S \in SUBSET ScoreRows : Cardinality(S) \in 1..MaxRows}
    /\ sv_weights = <<7, 3>>
    /\ sv_citations = <<>>
    /\ ChunkIdle
    /\ IngestIdle
    /\ ApiIdle
    /\ WatchIdle
    /\ ClientIdle
    /\ SearchIdle
    /\ ParseIdle
    /\ ScanIdle
    /\ AgentIdle
    /\ RelIdle
    /\ ReindexIdle
    /\ CanonIdle
    /\ ParserIdle
    /\ PoolIdle
    /\ CollapseIdle
    /\ OcrIdle

combined_score(row, vector_weight, fts_weight) ==
    row.vector_score * vector_weight + row.fts_score * fts_weight

relevance_score_NoCap(score) == Max(0, score)

relevance_score(score) == Min(ScoreUnit * ScoreUnit, Max(0, score))

\* ORDER BY score DESC LIMIT top_k over the selected rows.
RECURSIVE order_by_score(_, _, _)
order_by_score(rows, vw, fw) ==
    IF rows = {} THEN <<>>
    ELSE LET top == CHOOSE r \in rows :
                        \A o \in rows :
                            combined_score(o, vw, fw) <= combined_score(r, vw, fw)
         IN <<top>> \o order_by_score(rows \ {top}, vw, fw)

Citation(row, rank, vw, fw) ==
    [relevance_score |-> relevance_score(combined_score(row, vw, fw)),
     rank |-> rank]

ScoreSearch ==
    /\ \E vw \in Weights, fw \in Weights :
          LET rows == SubSeq(order_by_score(sv_rows, vw, fw), 1,
                             Min(TopK, Cardinality(sv_rows)))
          IN /\ sv_weights' = <<vw, fw>>
             /\ sv_citations' =
                    [i \in 1..Len(rows) |-> Citation(rows[i], i, vw, fw)]
    /\ UNCHANGED sv_rows
    /\ UNCHANGED notScoreVars

ScoreNext == ScoreSearch

SpecScore == ScoreInit /\ [][ScoreNext]_vars

\* C21: whatever the stored vector and full-text scores and whatever the
\* two weights, every citation a search returns carries a relevance_score
\* between 0.0 and 1.0 inclusive.
C21_RelevanceWithinUnitInterval ==
    \A i \in 1..Len(sv_citations) :
        /\ sv_citations[i].relevance_score >= 0
        /\ sv_citations[i].relevance_score <= ScoreUnit * ScoreUnit

\* A search whose weights sum to more than 1 returned two citations, one
\* with a raw score above 1.0 and one with a raw score below 0.0.
C21_Witness ==
    /\ Len(sv_citations) = 2
    /\ sv_weights[1] + sv_weights[2] > ScoreUnit
    /\ \E r \in sv_rows :
          combined_score(r, sv_weights[1], sv_weights[2]) > ScoreUnit * ScoreUnit
    /\ \E r \in sv_rows :
          combined_score(r, sv_weights[1], sv_weights[2]) < 0


(***************************************************************************)
(* The sync agent's folder parser (nas_sync/parser.py) under the default   *)
(* configuration (nas_sync/config.py).  A path is the tuple Path.parts of  *)
(* the source: one component per element, the leading "/" included; a      *)
(* component is the sequence of its characters, so that patterns are       *)
(* matched character by character as the regex engine does.  A compiled    *)
(* regex is a sequence of tokens: a literal character, "." (any) or ".*"   *)
(* (star).  detected_tags is left out of ParsedPath: it is computed last,  *)
(* by searches that cannot raise, and decides nothing else.                *)
(***************************************************************************)
root_path == <<<<"/">>, <<"v", "o", "l", "u", "m", "e", "1">>, <<"L", "e", "C", "P", "A">>, <<"C", "l", "i", "e", "n", "t", "F", "i", "l", "e", "s">>>>

skip_patterns_config == <<
    <<"*", ".", "7", "z">>,
    <<"*", ".", "z", "i", "p">>,
    <<"*", ".", "r", "a", "r">>,
    <<"*", ".", "l", "n", "k">>,
    <<".", "D", "S", "_", "S", "t", "o", "r", "e">>,
    <<"T", "h", "u", "m", "b", "s", ".", "d", "b">>,
    <<"I", "c", "o", "n", "*">>,
    <<"*", ".", "t", "m", "p">>,
    <<"~", "$", "*">>>>

special_folders ==
    {[folder |-> <<"P", "e", "r", "m", "a", "n", "e", "n", "t">>, tag |-> "permanent", is_permanent |-> TRUE],
     [folder |-> <<"T", "a", "x", " ", "N", "o", "t", "i", "c", "e">>, tag |-> "tax_notice", is_permanent |-> FALSE],
     [folder |-> <<"T", "a", "x", " ", "T", "r", "a", "n", "s", "c", "r", "i", "p", "t">>, tag |-> "transcript", is_permanent |-> FALSE],
     [folder |-> <<"T", "a", "x", " ", "E", "m", "a", "i", "l", "s">>, tag |-> "emails", is_permanent |-> FALSE],
     [folder |-> <<"P", "a", "p", "e", "r", "w", "o", "r", "k", "s">>, tag |-> "paperwork", is_permanent |-> FALSE],
     [folder |-> <<"I", "n", "v", "o", "i", "c", "e">>, tag |-> "invoice", is_permanent |-> FALSE],
     [folder |-> <<"I", "R", "S", " ", "N", "o", "t", "i", "c", "e", "s">>, tag |-> "irs_notice", is_permanent |-> FALSE]}

Digits == {"0", "1", "2", "3", "4", "5", "6", "7", "8", "9"}

DigitValue(c) == CHOOSE n \in 0..9 : <<"0", "1", "2", "3", "4", "5", "6", "7", "8", "9">>[n + 1] = c

special_chars == {".", "^", "$", "+", "{", "}", "[", "]", "|", "(", ")", "\\"}

_glob_to_regex(pattern) ==
    [i \in 1..Len(pattern) |->
        IF pattern[i] \in special_chars THEN [kind |-> "lit", char |-> pattern[i]]
        ELSE IF pattern[i] = "*" THEN [kind |-> "star", char |-> "*"]
        ELSE IF pattern[i] = "?" THEN [kind |-> "any", char |-> "?"]
        ELSE [kind |-> "lit", char |-> pattern[i]]]

\* _compile_patterns: self.skip_patterns
skip_patterns ==
    [i \in 1..Len(skip_patterns_config) |-> _glob_to_regex(skip_patterns_config[i])]

\* the regex engine on a token sequence; anchored says whether the match
\* must also end at the end of the string
RECURSIVE regex_match(_, _, _)
regex_match(regex, s, anchored) ==
    IF regex = <<>> THEN (anchored => s = <<>>)
    ELSE IF Head(regex).kind = "star"
         THEN \E k \in 0..Len(s) :
                  regex_match(Tail(regex), SubSeq(s, k + 1, Len(s)), anchored)
    ELSE IF s = <<>> THEN FALSE
    ELSE IF Head(regex).kind = "any" THEN regex_match(Tail(regex), Tail(s), anchored)
    ELSE Head(s) = Head(regex).char /\ regex_match(Tail(regex), Tail(s), anchored)

\* re.Pattern.match: the match starts at the start of the string and may
\* end anywhere
re_match(regex, s) == regex_match(regex, s, FALSE)

\* Path.relative_to: ValueError unless root is a leading part of path
relative_to(path, root) ==
    IF Len(path) >= Len(root) /\ SubSeq(path, 1, Len(root)) = root
    THEN [ok |-> TRUE, parts |-> SubSeq(path, Len(root) + 1, Len(path))]
    ELSE [ok |-> FALSE, parts |-> <<>>]

\* a NULL string field of ParsedPath
NoString == <<>>

ParsedPath(is_valid, skip_reason, relative_path) ==
    [client_code |-> NoString, client_name |-> NoString, client_type |-> None,
     year |-> NoYear, folder_tag |-> None, is_permanent |-> FALSE,
     relative_path |-> relative_path, is_valid |-> is_valid,
     skip_reason |-> skip_reason]

\* client_patterns: ^(?P<code>1\d{3})_(?P<name>.+)$ is individual,
\* ^(?P<code>2\d{3})_(?P<name>.+)$ is business
_parse_client_folder(folder_name) ==
    IF /\ Len(folder_name) >= 6
       /\ folder_name[1] \in {"1", "2"}
       /\ \A i \in 2..4 : folder_name[i] \in Digits
       /\ folder_name[5] = "_"
    THEN [code |-> SubSeq(folder_name, 1, 4),
          name |-> SubSeq(folder_name, 6, Len(folder_name)),
          type |-> IF folder_name[1] = "1" THEN "individual" ELSE "business"]
    ELSE [code |-> NoString, name |-> NoString, type |-> None]

\* year_pattern ^(?P<year>20\d{2})$, then the special folders
_parse_second_level(folder_name) ==
    IF /\ Len(folder_name) = 4
       /\ folder_name[1] = "2"
       /\ folder_name[2] = "0"
       /\ folder_name[3] \in Digits
       /\ folder_name[4] \in Digits
    THEN [year |-> 2000 + 10 * DigitValue(folder_name[3]) + DigitValue(folder_name[4]),
          folder_tag |-> None, is_permanent |-> FALSE]
    ELSE IF \E f \in special_folders : f.folder = folder_name
    THEN LET special == CHOOSE f \in special_folders : f.folder = folder_name
         IN [year |-> NoYear, folder_tag |-> special.tag,
             is_permanent |-> special.is_permanent]
    ELSE [year |-> NoYear, folder_tag |-> None, is_permanent |-> FALSE]

\* what parse gave its caller: a ParsedPath, or an exception
Returned_ParsedPath(value) == [outcome |-> "returned", value |-> value]
Raised_ValueError == [outcome |-> "raised", value |-> ParsedPath(FALSE, NoString, <<>>)]

\* try: path.relative_to(nas_root) except ValueError: return ParsedPath(...)
except_ValueError_Propagate(path) == Raised_ValueError

except_ValueError(path) ==
    Returned_ParsedPath(ParsedPath(FALSE, <<"Not under NAS root">>, path))

\* FolderParser(config): the attributes __init__ and _compile_patterns set
\* and parse reads
FolderParser ==
    [root_path |-> root_path, skip_patterns |-> skip_patterns,
     special_folders |-> special_folders]

\* FolderParser.parse as a method of the parser object self
parse_method(self, full_path) ==
    LET rel == relative_to(full_path, self.root_path)
        parts == rel.parts
        filename == full_path[Len(full_path)]
        hits == {i \in 1..Len(self.skip_patterns) :
                    re_match(self.skip_patterns[i], filename)}
        first_hit == CHOOSE i \in hits : \A j \in hits : i <= j
        client == _parse_client_folder(parts[1])
        second == _parse_second_level(parts[2])
    IN IF ~rel.ok THEN except_ValueError(full_path)
       ELSE IF Len(parts) < 2
       THEN Returned_ParsedPath(ParsedPath(FALSE,
                <<"Path too short (need client folder + file)">>, parts))
       ELSE IF hits # {}
       THEN Returned_ParsedPath(ParsedPath(FALSE,
                <<"Matches skip pattern: ", self.skip_patterns[first_hit]>>, parts))
       ELSE IF client.code = NoString
       THEN Returned_ParsedPath(ParsedPath(FALSE,
                <<"Invalid client folder format: ", parts[1]>>, parts))
       ELSE Returned_ParsedPath(
                [client_code |-> client.code, client_name |-> client.name,
                 client_type |-> client.type, year |-> second.year,
                 folder_tag |-> second.folder_tag,
                 is_permanent |-> second.is_permanent,
                 relative_path |-> Tail(parts), is_valid |-> TRUE,
                 skip_reason |-> NoString])

\* parse on the parser built from the default configuration
FolderParser_parse(full_path) == parse_method(FolderParser, full_path)

\* str.lower() on the characters of a suffix
lower(c) == IF c = "L" THEN "l" ELSE IF c = "N" THEN "n" ELSE IF c = "K" THEN "k" ELSE c

\* Path(path).suffix.lower() == ".lnk"; a name that is only ".lnk" has no suffix
is_lnk_file(path) ==
    LET name == path[Len(path)]
    IN /\ Len(name) >= 5
       /\ [i \in 1..4 |-> lower(name[Len(name) - 4 + i])] = <<".", "l", "n", "k">>

\* ---- the paths parse is applied to ----
PathPrefixes ==
    {root_path,
     <<<<"/">>, <<"s", "o", "m", "e">>, <<"o", "t", "h", "e", "r">>>>,
     Tail(root_path),
     SubSeq(root_path, 1, Len(root_path) - 1)}

ClientFolders == {<<"1", "0", "0", "1", "_", "A">>, <<"2", "0", "0", "1", "_", "B">>, <<"3", "0", "0", "1", "_", "C">>, <<"1", "0", "0", "1", "_">>, <<"1", "0", "x", "1", "_", "A">>}

SecondLevels == {<<"2", "0", "2", "4">>, <<"1", "9", "9", "9">>, <<"P", "e", "r", "m", "a", "n", "e", "n", "t">>, <<"m", "i", "s", "c">>}

Filenames ==
    {<<"a", ".", "p", "d", "f">>,
     <<"a", ".", "z", "i", "p">>,
     <<"a", ".", "z", "i", "p", "x">>,
     <<"a", ".", "l", "n", "k">>,
     <<"a", ".", "L", "N", "K">>,
     <<"a", ".", "t", "m", "p">>,
     <<"a", ".", "t", "m", "p", ".", "p", "d", "f">>,
     <<".", "D", "S", "_", "S", "t", "o", "r", "e">>,
     <<".", "D", "S", "_", "S", "t", "o", "r", "e", "1">>,
     <<"T", "h", "u", "m", "b", "s", ".", "d", "b">>,
     <<"I", "c", "o", "n">>,
     <<"I", "c", "o", "n", "s", ".", "p", "d", "f">>,
     <<"~", "$", "a", ".", "d", "o", "c">>,
     <<"a", "~", "$">>,
     <<"z", "i", "p">>}

ParsePaths ==
    PathPrefixes
    \cup {p \o <<n>> : p \in PathPrefixes, n \in Filenames}
    \cup {p \o <<c, n>> : p \in PathPrefixes, c \in ClientFolders, n \in Filenames}
    \cup {p \o <<c, s, n>> : p \in PathPrefixes, c \in ClientFolders,
                             s \in SecondLevels, n \in Filenames}

NotParsed == [outcome |-> "none", value |-> ParsedPath(FALSE, NoString, <<>>)]

ParseInit ==
    /\ pr_path \in ParsePaths
    /\ pr_result = NotParsed
    /\ ChunkIdle
    /\ IngestIdle
    /\ ApiIdle
    /\ WatchIdle
    /\ ClientIdle
    /\ SearchIdle
    /\ ScoreIdle
    /\ ScanIdle
    /\ AgentIdle
    /\ RelIdle
    /\ ReindexIdle
    /\ CanonIdle
    /\ ParserIdle
    /\ PoolIdle
    /\ CollapseIdle
    /\ OcrIdle

Parse ==
    /\ pr_result = NotParsed
    /\ pr_result' = FolderParser_parse(pr_path)
    /\ UNCHANGED pr_path
    /\ UNCHANGED notParseVars

ParseNext == Parse

SpecParse == ParseInit /\ [][ParseNext]_vars


(***************************************************************************)
(* The sync agent's full scan (nas_sync/scanner.py) and the watcher's      *)
(* _process_file (nas_sync/watcher.py), under the default configuration.   *)
(* The NAS root exists and is read without filters.  What the file system  *)
(* and the API do to one file is the environment's choice: stat or the     *)
(* hash raises OSError, the notification returns a status or raises        *)
(* tenacity's RetryError once its attempts are used up.                    *)
(***************************************************************************)
MaxFiles == 2

ScanPaths ==
    {root_path \o <<<<"1", "0", "0", "1", "_", "A">>, <<"2", "0", "2", "4">>, <<"a", ".", "p", "d", "f">>>>,
     root_path \o <<<<"1", "0", "0", "1", "_", "A">>, <<"2", "0", "2", "4">>, <<"a", ".", "l", "n", "k">>>>,
     root_path \o <<<<"1", "0", "0", "1", "_", "A">>, <<"a", ".", "L", "N", "K">>>>,
     root_path \o <<<<"1", "0", "0", "1", "_", "A">>, <<"2", "0", "2", "4">>, <<"a", ".", "z", "i", "p">>>>,
     root_path \o <<<<"2", "0", "0", "1", "_", "B">>, <<"P", "e", "r", "m", "a", "n", "e", "n", "t">>, <<"a", ".", "p", "d", "f">>>>,
     root_path \o <<<<"3", "0", "0", "1", "_", "C">>, <<"2", "0", "2", "4">>, <<"a", ".", "p", "d", "f">>>>}

ApiOutcomes == {"queued", "pending_approval", "duplicate", "error", "RetryError"}
FileOutcomes == {"ok", "OSError"}
ScanEnvs == [file : FileOutcomes, api : ApiOutcomes, relationship : BOOLEAN]

\* the watcher ignores what the API answers
WatcherEnvs == [file : FileOutcomes, relationship : BOOLEAN]

\* self.parser.parse on the files of the NAS, computed once
ParsedFiles == [path \in ScanPaths |-> FolderParser_parse(path)]

NotHandled == [path |-> <<>>, event_type |-> None, resolved |-> FALSE, sent |-> None]

NoResults ==
    [status |-> None, files_scanned |-> 0, files_queued |-> 0,
     files_skipped |-> 0, files_failed |-> 0, relationships_found |-> 0]

ScanInit ==
    /\ sn_nas \in {F \in SUBSET ScanPaths : Cardinality(F) <= MaxFiles}
    /\ sn_pc = "idle"
    /\ sn_dry_run = FALSE
    /\ all_files = <<>>
    /\ sn_next = 1
    /\ files_scanned = 0
    /\ files_queued = 0
    /\ files_skipped = 0
    /\ files_failed = 0
    /\ relationships_found = 0
    /\ sn_processed = <<>>
    /\ sn_resolved = <<>>
    /\ sn_sent = <<>>
    /\ sn_results = NoResults
    /\ sn_api_closed = FALSE
    /\ wp_handled = NotHandled
    /\ ChunkIdle
    /\ IngestIdle
    /\ ApiIdle
    /\ WatchIdle
    /\ ClientIdle
    /\ SearchIdle
    /\ ScoreIdle
    /\ ParseIdle
    /\ AgentIdle
    /\ RelIdle
    /\ ReindexIdle
    /\ CanonIdle
    /\ ParserIdle
    /\ PoolIdle
    /\ CollapseIdle
    /\ OcrIdle

\* client_dir / "dummy.txt" parses as valid and carries a client code
_collect_files(nas) ==
    {f \in nas :
        LET parsed == FolderParser_parse(
                          root_path \o <<f[Len(root_path) + 1], <<"d", "u", "m", "m", "y", ".", "t", "x", "t">>>>).value
        IN parsed.is_valid /\ parsed.client_code # NoString}

\* the orders in which iterdir and rglob may list a set of files
Listings(files) ==
    {s \in [1..Cardinality(files) -> files] :
        \A i, j \in 1..Cardinality(files) : s[i] = s[j] => i = j}

scan(dry_run) ==
    /\ sn_pc = "idle"
    /\ sn_pc' = "scanning"
    /\ sn_dry_run' = dry_run
    /\ files_scanned' = 0
    /\ files_queued' = 0
    /\ files_skipped' = 0
    /\ files_failed' = 0
    /\ relationships_found' = 0
    /\ all_files' \in Listings(_collect_files(sn_nas))
    /\ sn_next' = 1
    /\ UNCHANGED <<sn_nas, sn_processed, sn_resolved, sn_sent, sn_results,
                   sn_api_closed, wp_handled>>
    /\ UNCHANGED notScanVars

ScanStart == \E dry_run \in BOOLEAN : scan(dry_run)

\* the body of the try block of _process_file: what it adds to the
\* counters, what it sends, and the exception it ends with, if any
NoEffect ==
    [queued |-> 0, skipped |-> 0, failed |-> 0, relationships |-> 0,
     sent |-> <<>>, resolved |-> <<>>, failure |-> None, raised |-> None]

_process_file(file_path, dry_run, env) ==
    LET result == ParsedFiles[file_path]
        parsed == result.value
    IN IF result.outcome = "raised" THEN [NoEffect EXCEPT !.raised = "ValueError"]
       ELSE IF ~parsed.is_valid THEN [NoEffect EXCEPT !.skipped = 1]
       ELSE IF is_lnk_file(file_path)
       THEN IF ~dry_run /\ parsed.client_code # NoString
            THEN IF ~env.relationship
                 THEN [NoEffect EXCEPT !.resolved = <<file_path>>, !.skipped = 1]
                 ELSE IF env.api = "RetryError"
                 THEN [NoEffect EXCEPT !.resolved = <<file_path>>,
                                       !.sent = << <<"relationship", file_path>> >>,
                                       !.raised = "RetryError"]
                 ELSE [NoEffect EXCEPT !.resolved = <<file_path>>,
                                       !.sent = << <<"relationship", file_path>> >>,
                                       !.relationships = 1, !.skipped = 1]
            ELSE [NoEffect EXCEPT !.skipped = 1]
       ELSE IF dry_run THEN [NoEffect EXCEPT !.queued = 1]
       ELSE IF env.file = "OSError" THEN [NoEffect EXCEPT !.raised = "OSError"]
       ELSE IF env.api = "RetryError"
       THEN [NoEffect EXCEPT !.sent = << <<"file_arrived", file_path>> >>,
                             !.raised = "RetryError"]
       ELSE IF env.api \in {"queued", "pending_approval"}
       THEN [NoEffect EXCEPT !.sent = << <<"file_arrived", file_path>> >>,
                             !.queued = 1]
       ELSE IF env.api = "duplicate"
       THEN [NoEffect EXCEPT !.sent = << <<"file_arrived", file_path>> >>,
                             !.skipped = 1]
       ELSE [NoEffect EXCEPT !.sent = << <<"file_arrived", file_path>> >>,
                             !.failed = 1, !.failure = "error response"]

\* except Exception as e: OSError, ValueError and RetryError are Exceptions
except_Exception_Never(raised) == FALSE

except_Exception(raised) == raised \in {"OSError", "ValueError", "RetryError"}

ProcessFile ==
    /\ sn_pc = "scanning"
    /\ sn_next <= Len(all_files)
    /\ \E env \in ScanEnvs :
          LET file_path == all_files[sn_next]
              effect == _process_file(file_path, sn_dry_run, env)
              caught == effect.raised # None /\ except_Exception(effect.raised)
              failure == IF effect.raised # None THEN effect.raised
                         ELSE effect.failure
          IN /\ files_scanned' = files_scanned + 1
             /\ files_queued' = files_queued + effect.queued
             /\ files_skipped' = files_skipped + effect.skipped
             /\ files_failed' = files_failed + effect.failed
                                    + (IF caught THEN 1 ELSE 0)
             /\ relationships_found' = relationships_found + effect.relationships
             /\ sn_sent' = sn_sent \o effect.sent
             /\ sn_resolved' = sn_resolved \o effect.resolved
             /\ sn_processed' = Append(sn_processed,
                                       [path |-> file_path, failure |-> failure])
             /\ IF effect.raised # None /\ ~caught
                THEN sn_pc' = "raised" /\ UNCHANGED sn_next
                ELSE sn_pc' = "scanning" /\ sn_next' = sn_next + 1
    /\ UNCHANGED <<sn_nas, sn_dry_run, all_files, sn_results, sn_api_closed,
                   wp_handled>>
    /\ UNCHANGED notScanVars

ScanReturn ==
    /\ sn_pc = "scanning"
    /\ sn_next > Len(all_files)
    /\ sn_api_closed' = TRUE
    /\ sn_results' =
           [status |-> "completed", files_scanned |-> files_scanned,
            files_queued |-> files_queued, files_skipped |-> files_skipped,
            files_failed |-> files_failed,
            relationships_found |-> relationships_found]
    /\ sn_pc' = "returned"
    /\ UNCHANGED <<sn_nas, sn_dry_run, all_files, sn_next, files_scanned,
                   files_queued, files_skipped, files_failed,
                   relationships_found, sn_processed, sn_resolved, sn_sent,
                   wp_handled>>
    /\ UNCHANGED notScanVars

\* NASWatcher._process_file with _process_lnk_file: what one call resolves
\* and sends; its exceptions go to the caller's handler
watcher_process_file(path, event_type, env) ==
    LET parsed == ParsedFiles[path].value
        handled == [path |-> path, event_type |-> event_type,
                    resolved |-> FALSE, sent |-> None]
    IN IF ~parsed.is_valid THEN handled
       ELSE IF is_lnk_file(path) /\ event_type # "deleted"
       THEN IF parsed.client_code = NoString THEN handled
            ELSE IF env.relationship
            THEN [handled EXCEPT !.resolved = TRUE, !.sent = "relationship"]
            ELSE [handled EXCEPT !.resolved = TRUE]
       ELSE IF event_type = "deleted" THEN [handled EXCEPT !.sent = "file_deleted"]
       ELSE IF env.file = "OSError" THEN handled
       ELSE [handled EXCEPT !.sent = "file_arrived"]

WatcherProcessFile ==
    /\ \E path \in sn_nas, event_type \in EventTypes, env \in WatcherEnvs :
          wp_handled' = watcher_process_file(path, event_type, env)
    /\ UNCHANGED <<sn_nas, sn_pc, sn_dry_run, all_files, sn_next, files_scanned,
                   files_queued, files_skipped, files_failed,
                   relationships_found, sn_processed, sn_resolved, sn_sent,
                   sn_results, sn_api_closed>>
    /\ UNCHANGED notScanVars

ScanNext == ScanStart \/ ProcessFile \/ ScanReturn \/ WatcherProcessFile

SpecScan == ScanInit /\ [][ScanNext]_vars

Failures(log) == {i \in 1..Len(log) : log[i].failure # None}

\* C22: every file whose processing fails (stat or hash raises, the
\* notification raises after its retries or comes back as an error) adds
\* exactly one to files_failed and the scan goes on to the next file; a
\* scan never ends with an exception, and when it returns it has processed
\* every collected file exactly once, in order, with status completed.
C22_OneFailureIsCountedAndSkipped ==
    /\ sn_pc # "raised"
    /\ files_failed = Cardinality(Failures(sn_processed))
    /\ sn_pc = "scanning" =>
           /\ Len(sn_processed) = sn_next - 1
           /\ \A i \in 1..Len(sn_processed) : sn_processed[i].path = all_files[i]
    /\ sn_pc = "returned" =>
           /\ sn_results.status = "completed"
           /\ sn_results.files_failed = files_failed
           /\ Len(sn_processed) = Len(all_files)
           /\ \A i \in 1..Len(all_files) : sn_processed[i].path = all_files[i]

\* A scan of two files returned completed although the first file could
\* not be read; the second file was still notified and queued.
C22_Witness ==
    /\ sn_pc = "returned"
    /\ Len(sn_processed) = 2
    /\ sn_processed[1].failure = "OSError"
    /\ sn_processed[2].failure = None
    /\ sn_results.files_failed = 1
    /\ sn_results.files_queued = 1

UnderValidClientFolder(path) ==
    LET rel == relative_to(path, root_path)
    IN /\ rel.ok
       /\ Len(rel.parts) >= 2
       /\ _parse_client_folder(rel.parts[1]).code # NoString

\* C23: with the default configuration, every .lnk file under a valid
\* client folder that a non-dry-run scan processes, or that the watcher
\* handles for a created or modified event, has been passed to
\* find_relationship_from_lnk and has not been sent as file-arrived.
C23_ShortcutsGoToResolver ==
    /\ \A i \in 1..Len(sn_processed) :
          LET path == sn_processed[i].path
          IN (is_lnk_file(path) /\ UnderValidClientFolder(path) /\ ~sn_dry_run) =>
                /\ \E j \in 1..Len(sn_resolved) : sn_resolved[j] = path
                /\ \A j \in 1..Len(sn_sent) : sn_sent[j] # <<"file_arrived", path>>
    /\ (/\ wp_handled.event_type \in {"created", "modified"}
        /\ is_lnk_file(wp_handled.path)
        /\ UnderValidClientFolder(wp_handled.path)) =>
           /\ wp_handled.resolved
           /\ wp_handled.sent # "file_arrived"


(***************************************************************************)
(* The agent-facing endpoints of the ingest router on a store that already *)
(* holds an approved client, its permanent case and one ingested document  *)
(* (apps/api/routers/ingest.py): file-arrived as above, file-deleted,      *)
(* heartbeat and sync-status.  No admin reviews the queue meanwhile, and   *)
(* the awaits a file-arrived cannot reach from this store (an unknown or   *)
(* pending client, a missing case) are left out of AgentNext.              *)
(* The clock is the one of the file-arrived handlers: it advances by one   *)
(* with every request.                                                     *)
(***************************************************************************)

\* timedelta(minutes=5) of get_sync_status, in ticks of the model's clock;
\* scaled down so that a heartbeat can grow stale within MaxRequests ticks
StaleMinutes == 2

\* SOFT_DELETE_RETENTION_DAYS
SoftDeleteRetentionDays == 90

\* the files and paths of the permanent folder, which the agent reports here
AgentFiles == {file \in Files : file[1] \in {PermanentFileA, PermanentFileB}}
AgentPaths == {file[1] : file \in AgentFiles}

AgentInit ==
    /\ clients = {[id |-> "1001", client_code |-> "1001",
                   approval_status |-> "approved",
                   nas_folder_path |-> rsplit_head(YearFile, 2)]}
    /\ cases = {[id |-> 1, client_id |-> "1001", tax_year |-> 0,
                 is_permanent |-> TRUE]}
    /\ documents = {[id |-> PermanentFileB, case_id |-> 1,
                     nas_full_path |-> PermanentFileB, file_hash |-> <<"d1">>,
                     processing_status |-> "ready", last_seen_at |-> NoTime,
                     deleted_at |-> NoTime]}
    /\ document_chunks = {[document_id |-> PermanentFileB, chunk_index |-> 0]}
    /\ sync_queue = {}
    /\ sent_tasks = <<>>
    /\ now = 0
    /\ last_file_event = 0
    /\ last_heartbeat = NoTime
    /\ h_pc = [p \in Procs |-> "idle"]
    /\ h_req = [p \in Procs |-> NoReq]
    /\ h_loc = [p \in Procs |-> None]
    /\ h_resp = [p \in Procs |-> NoResp]
    /\ ChunkIdle
    /\ IngestIdle
    /\ WatchIdle
    /\ ClientIdle
    /\ SearchIdle
    /\ ScoreIdle
    /\ ParseIdle
    /\ ScanIdle
    /\ RelIdle
    /\ ReindexIdle
    /\ CanonIdle
    /\ ParserIdle
    /\ PoolIdle
    /\ CollapseIdle
    /\ OcrIdle

AgentFileArrived(p) == file_arrived(p, AgentFiles)

\* lines 297-308: the request arrives and _last_file_event is set
FileDeleted(p) ==
    /\ h_pc[p] = "idle"
    /\ now < MaxRequests
    /\ \E nas_path \in AgentPaths :
          Accept(p, [kind |-> "file_deleted", nas_path |-> nas_path],
                 "deleted_lookup", None)
    /\ now' = now + 1
    /\ last_file_event' = now'
    /\ UNCHANGED <<storeVars, agentVars, notApiAgentVars>>

\* lines 310-319: the document is looked up by its path
DeletedLookup(p) ==
    /\ h_pc[p] = "deleted_lookup"
    /\ LET found == DocumentsByPath(h_req[p].nas_path)
       IN  IF found = {}
           THEN Respond(p, [status |-> "not_found"])
           ELSE Continue(p, "soft_delete",
                         [document |-> (CHOOSE d \in found : TRUE).id])
    /\ UNCHANGED <<storeVars, now, last_file_event, agentVars, notApiAgentVars>>

\* a delete that removes the row
soft_delete_Remove(rows, id, t) == {d \in rows : d.id # id}

\* document.deleted_at = now; await db.commit()
soft_delete(rows, id, t) ==
    {IF d.id = id THEN [d EXCEPT !.deleted_at = t] ELSE d : d \in rows}

\* lines 321-332
SoftDelete(p) ==
    /\ h_pc[p] = "soft_delete"
    /\ documents' = soft_delete(documents, h_loc[p].document, now)
    /\ Respond(p, [status |-> "soft_deleted", document_id |-> h_loc[p].document,
                   retention_until |-> now + SoftDeleteRetentionDays])
    /\ UNCHANGED <<clients, cases, sync_queue, sent_tasks, now, last_file_event,
                   agentVars, notApiAgentVars>>

\* lines 335-340
Heartbeat(p) ==
    /\ h_pc[p] = "idle"
    /\ now < MaxRequests
    /\ now' = now + 1
    /\ last_heartbeat' = now'
    /\ Respond(p, [status |-> "ok", received_at |-> now'])
    /\ UNCHANGED <<storeVars, last_file_event, document_chunks, notApiAgentVars>>

\* a status that turns stale as soon as the heartbeat is 5 minutes old
agent_status_AtFive(heartbeat, t) ==
    IF heartbeat = NoTime THEN "disconnected"
    ELSE IF t - heartbeat >= StaleMinutes THEN "stale"
    ELSE "healthy"

\* lines 535-541
agent_status(heartbeat, t) ==
    IF heartbeat = NoTime THEN "disconnected"
    ELSE IF t - heartbeat > StaleMinutes THEN "stale"
    ELSE "healthy"

\* lines 530-541: the request arrives and the agent status is computed
\* before the first query is awaited
SyncStatus(p) ==
    /\ h_pc[p] = "idle"
    /\ now < MaxRequests
    /\ now' = now + 1
    /\ Accept(p, [kind |-> "sync_status"], "sync_stats",
              [agent_status |-> agent_status(last_heartbeat, now'),
               computed_at |-> now'])
    /\ UNCHANGED <<storeVars, last_file_event, agentVars, notApiAgentVars>>

\* lines 543-594: the counts are queried and the response is built; the
\* two timestamps are read here, after the awaits
SyncStats(p) ==
    /\ h_pc[p] = "sync_stats"
    /\ Respond(p, [status |-> "ok",
                   agent_status |-> h_loc[p].agent_status,
                   last_heartbeat |-> last_heartbeat,
                   last_file_event |-> last_file_event,
                   pending_approval |->
                       Cardinality({q \in sync_queue : q.status = "pending"}),
                   processing |->
                       Cardinality({d \in documents :
                           d.processing_status \in
                               {"pending", "extracting", "chunking"}})])
    /\ UNCHANGED <<storeVars, now, last_file_event, agentVars, notApiAgentVars>>

AgentNext ==
    \E p \in Procs :
        \/ AgentFileArrived(p) \/ HashCheck(p) \/ ClientLookup(p)
        \/ CaseLookup(p) \/ InsertDocument(p)
        \/ FileDeleted(p) \/ DeletedLookup(p) \/ SoftDelete(p)
        \/ Heartbeat(p) \/ SyncStatus(p) \/ SyncStats(p)

SpecAgent == AgentInit /\ [][AgentNext]_vars

IsFileEvent(p) ==
    \/ last_file_event' # last_file_event
    \/ h_req[p].kind \in {"file_arrived", "file_deleted"} /\ h_pc'[p] # h_pc[p]

\* C26: the agent status a sync-status request computes is disconnected
\* exactly when no heartbeat has been received, healthy exactly when the
\* last heartbeat is at most the stale interval old, and stale exactly when
\* it is older; the response carries that status.  No step of a
\* file-arrived or file-deleted request changes the heartbeat state the
\* status is computed from, and once a heartbeat has been received the
\* state never goes back to none, so the status is never disconnected again.
\* (The status is the one at the arrival of the request: the response is
\* sent after the queries, and a heartbeat received in between shows in
\* its last_heartbeat field only.)
C26_AgentStatusFollowsHeartbeat ==
    [][/\ \A p \in Procs :
             /\ (h_pc[p] = "idle" /\ h_pc'[p] = "sync_stats") =>
                   LET status == h_loc'[p].agent_status
                       age == now' - last_heartbeat
                   IN  /\ status \in {"disconnected", "healthy", "stale"}
                       /\ status = "disconnected" <=> last_heartbeat = NoTime
                       /\ status = "healthy" <=>
                              (last_heartbeat # NoTime /\ age <= StaleMinutes)
                       /\ status = "stale" <=>
                              (last_heartbeat # NoTime /\ age > StaleMinutes)
             /\ (h_pc[p] = "sync_stats" /\ h_pc'[p] = "idle") =>
                   h_resp'[p].agent_status = h_loc[p].agent_status
             /\ IsFileEvent(p) => last_heartbeat' = last_heartbeat
       /\ last_heartbeat # NoTime => last_heartbeat' # NoTime]_vars

\* One sync-status request found the heartbeat exactly the stale interval
\* old and computed healthy; a later one was answered stale.
C26_Witness ==
    \E p, q \in Procs :
        /\ h_pc[q] = "sync_stats"
        /\ h_loc[q].agent_status = "healthy"
        /\ h_loc[q].computed_at - last_heartbeat = StaleMinutes
        /\ "agent_status" \in DOMAIN h_resp[p]
        /\ h_resp[p].agent_status = "stale"


(***************************************************************************)
(* The relationship endpoint of the ingest router                          *)
(* (apps/api/routers/ingest.py, create_relationship), served by the same   *)
(* two handlers; every query and the commit is an await at which the       *)
(* other handler may run.                                                  *)
(***************************************************************************)
MaxRelationshipCalls == 3

KnownClients ==
    {[id |-> code, client_code |-> code, approval_status |-> "approved",
      nas_folder_path |-> <<"nas", code>>] : code \in {"1001", "1002", "2001"}}

IndividualCodes == {"1001", "1002"}
BusinessCodes == {"2001"}

RelInit ==
    /\ clients \in SUBSET KnownClients
    /\ cases = {}
    /\ documents = {}
    /\ sync_queue = {}
    /\ sent_tasks = <<>>
    /\ now = 0
    /\ last_file_event = 0
    /\ h_pc = [p \in Procs |-> "idle"]
    /\ h_req = [p \in Procs |-> NoReq]
    /\ h_loc = [p \in Procs |-> None]
    /\ h_resp = [p \in Procs |-> NoResp]
    /\ relationships = {}
    /\ rl_calls = 0
    /\ ChunkIdle
    /\ IngestIdle
    /\ WatchIdle
    /\ ClientIdle
    /\ SearchIdle
    /\ ScoreIdle
    /\ ParseIdle
    /\ ScanIdle
    /\ AgentIdle
    /\ ReindexIdle
    /\ CanonIdle
    /\ ParserIdle
    /\ PoolIdle
    /\ CollapseIdle
    /\ OcrIdle

\* select(Client).where(Client.client_code == code)
ClientsByCode(code) == {c \in clients : c.client_code = code}

\* select(ClientRelationship).where(individual_id == .., business_id == ..)
RelationshipsOf(individual, business) ==
    {r \in relationships : r.individual_id = individual /\ r.business_id = business}

\* lines 476-481: the request arrives
CreateRelationship(p) ==
    /\ h_pc[p] = "idle"
    /\ rl_calls < MaxRelationshipCalls
    /\ rl_calls' = rl_calls + 1
    /\ \E individual_code \in IndividualCodes, business_code \in BusinessCodes :
          Accept(p, [kind |-> "relationship", individual_code |-> individual_code,
                     business_code |-> business_code],
                 "find_individual", None)
    /\ UNCHANGED <<storeVars, now, last_file_event, relationships, notApiRelVars>>

\* lines 482-489
FindIndividual(p) ==
    /\ h_pc[p] = "find_individual"
    /\ LET found == ClientsByCode(h_req[p].individual_code)
       IN  IF found = {}
           THEN Respond(p, [status |-> "skipped",
                            message |-> "Individual client not found"])
           ELSE Continue(p, "find_business",
                         [individual |-> (CHOOSE c \in found : TRUE).id])
    /\ UNCHANGED <<storeVars, now, last_file_event, relVars, notApiRelVars>>

\* lines 491-498
FindBusiness(p) ==
    /\ h_pc[p] = "find_business"
    /\ LET found == ClientsByCode(h_req[p].business_code)
       IN  IF found = {}
           THEN Respond(p, [status |-> "skipped",
                            message |-> "Business client not found"])
           ELSE Continue(p, "find_existing",
                         [individual |-> h_loc[p].individual,
                          business |-> (CHOOSE c \in found : TRUE).id])
    /\ UNCHANGED <<storeVars, now, last_file_event, relVars, notApiRelVars>>

\* lines 500-510
FindExisting(p) ==
    /\ h_pc[p] = "find_existing"
    /\ LET existing == RelationshipsOf(h_loc[p].individual, h_loc[p].business)
       IN  IF existing # {}
           THEN Respond(p, [status |-> "exists",
                            relationship_id |-> (CHOOSE r \in existing : TRUE).id])
           ELSE Continue(p, "insert_relationship", h_loc[p])
    /\ UNCHANGED <<storeVars, now, last_file_event, relVars, notApiRelVars>>

\* the unique index ix_client_rel_unique (models.py lines 408-415)
RelationshipPairTaken(individual, business) ==
    RelationshipsOf(individual, business) # {}

\* lines 512-522: the row is added and committed; nothing handles the
\* IntegrityError of a rejected insert
InsertRelationship(p) ==
    /\ h_pc[p] = "insert_relationship"
    /\ LET relationship ==
               [id |-> <<h_loc[p].individual, h_loc[p].business>>,
                individual_id |-> h_loc[p].individual,
                business_id |-> h_loc[p].business]
       IN  IF RelationshipPairTaken(h_loc[p].individual, h_loc[p].business)
           THEN /\ Respond(p, ErrorResponse("IntegrityError ix_client_rel_unique"))
                /\ UNCHANGED relationships
           ELSE /\ relationships' = relationships \cup {relationship}
                /\ Respond(p, [status |-> "created",
                               relationship_id |-> relationship.id])
    /\ UNCHANGED <<storeVars, now, last_file_event, rl_calls, notApiRelVars>>

RelNext ==
    \E p \in Procs :
        \/ CreateRelationship(p) \/ FindIndividual(p) \/ FindBusiness(p)
        \/ FindExisting(p) \/ InsertRelationship(p)

SpecRel == RelInit /\ [][RelNext]_vars

\* C24: there is at most one relationship per (individual, business) pair,
\* and every relationship request is answered by what the store holds when
\* the answer is given: skipped, creating nothing, when one of its clients
\* is unknown; exists, changing nothing, when the pair is already there;
\* created, adding exactly that pair, otherwise.
C24_OneRelationshipPerPair ==
    [][/\ \A r1, r2 \in relationships' :
             (r1.individual_id = r2.individual_id
                  /\ r1.business_id = r2.business_id) => r1 = r2
       /\ \A p \in Procs :
             (h_req[p].kind = "relationship" /\ h_pc'[p] = "idle") =>
                 LET req == h_req[p]
                 IN  IF ClientsByCode(req.individual_code) = {}
                        \/ ClientsByCode(req.business_code) = {}
                     THEN /\ h_resp'[p].status = "skipped"
                          /\ relationships' = relationships
                     ELSE IF RelationshipsOf(req.individual_code,
                                             req.business_code) # {}
                     THEN /\ h_resp'[p].status = "exists"
                          /\ relationships' = relationships
                     ELSE /\ h_resp'[p].status = "created"
                          /\ \E r \in relationships' :
                                /\ r.individual_id = req.individual_code
                                /\ r.business_id = req.business_code
                                /\ relationships' = relationships \cup {r}]_vars


(***************************************************************************)
(* The admin re-index endpoint (apps/api/routers/admin.py) beside the      *)
(* worker's ingestion of the one document of the ingest state machine.     *)
(***************************************************************************)
MaxReindexCalls == 2

\* the id of the document whose ingestion is modelled
TheDocument == "doc"

ReindexRequests == [document_ids : SUBSET {TheDocument}, all_documents : BOOLEAN]

\* lines 89-115: the ids are collected and counted; queueing is a TODO
reindex_documents(request) ==
    IF request.document_ids = {} /\ ~request.all_documents
    THEN ErrorResponse("Must specify document_ids or set all_documents=true")
    ELSE LET document_ids == IF request.all_documents THEN {TheDocument}
                             ELSE request.document_ids
         IN [status |-> "ok", queued_count |-> Cardinality(document_ids)]

Reindex ==
    /\ ri_calls < MaxReindexCalls
    /\ ri_calls' = ri_calls + 1
    /\ \E request \in ReindexRequests :
          /\ ri_request' = request
          /\ ri_response' = reindex_documents(request)
    /\ UNCHANGED notReindexVars

ReindexNext == IngestNext \/ Reindex

SpecReindex == IngestInit /\ [][ReindexNext]_vars

\* C27: an admin re-index request that names the document resets its
\* processing_status to pending and queues its ingestion again.
C27_ReindexResetsAndRequeues ==
    [][(/\ ri_calls' # ri_calls
        /\ (TheDocument \in ri_request'.document_ids \/ ri_request'.all_documents)) =>
           /\ processing_status' = "pending"
           /\ ingest_queue' = ingest_queue + 1]_vars


(***************************************************************************)
(* Canonicalization (services/worker/tasks/canonicalize.py).  A text is    *)
(* the sequence of its characters, "\n" and "\t" included, and every       *)
(* function works on the characters as the source does.                    *)
(***************************************************************************)
MaxCanonPages == 3

is_whitespace(c) == c \in {" ", "\t", "\n", "\r"}
is_digit(c) == c \in Digits
is_upper(c) ==
    c \in {"A", "B", "C", "D", "E", "F", "G", "H", "I", "J", "K", "L", "M",
           "N", "O", "P", "Q", "R", "S", "T", "U", "V", "W", "X", "Y", "Z"}
is_word(c) == ~is_whitespace(c) /\ c \notin {"[", "]", ".", ",", "-"}

\* str.split("\n")
RECURSIVE split(_)
split(s) ==
    LET hits == {i \in 1..Len(s) : s[i] = "\n"}
        first == CHOOSE i \in hits : \A j \in hits : i <= j
    IN  IF hits = {} THEN <<s>>
        ELSE <<SubSeq(s, 1, first - 1)>> \o split(SubSeq(s, first + 1, Len(s)))

\* sep.join(lines)
RECURSIVE join(_, _)
join(sep, lines) ==
    IF lines = <<>> THEN <<>>
    ELSE IF Len(lines) = 1 THEN lines[1]
    ELSE lines[1] \o sep \o join(sep, Tail(lines))

RECURSIVE lstrip(_)
lstrip(s) == IF s # <<>> /\ is_whitespace(Head(s)) THEN lstrip(Tail(s)) ELSE s

RECURSIVE rstrip(_)
rstrip(s) ==
    IF s # <<>> /\ is_whitespace(s[Len(s)])
    THEN rstrip(SubSeq(s, 1, Len(s) - 1)) ELSE s

strip(s) == rstrip(lstrip(s))

\* [l.strip() for l in page_text.split("\n") if l.strip()]
stripped_lines(page_text) ==
    LET lines == split(page_text)
    IN  SelectSeq([i \in 1..Len(lines) |-> strip(lines[i])],
                  LAMBDA l : l # <<>>)

\* lines[:3] and lines[-3:]
first_three(lines) == SubSeq(lines, 1, Min(3, Len(lines)))
last_three(lines) == SubSeq(lines, Max(1, Len(lines) - 2), Len(lines))

\* first_lines.extend(lines[:3]) over the pages
RECURSIVE first_lines(_, _)
first_lines(page_texts, i) ==
    IF i > Len(page_texts) THEN <<>>
    ELSE first_three(stripped_lines(page_texts[i]))
             \o first_lines(page_texts, i + 1)

\* last_lines.extend(lines[-3:]) over the pages
RECURSIVE last_lines(_, _)
last_lines(page_texts, i) ==
    IF i > Len(page_texts) THEN <<>>
    ELSE last_three(stripped_lines(page_texts[i]))
             \o last_lines(page_texts, i + 1)

\* Counter(lines)[line]
count(lines, line) == Cardinality({i \in 1..Len(lines) : lines[i] = line})

\* a threshold that a single occurrence meets
min_occurrences_One(n) == 1

\* int(len(page_texts) * threshold) with the default threshold 0.7; the
\* float product truncates to 7n div 10 for every n below 90
min_occurrences(n) == (7 * n) \div 10

repeated(lines, n) ==
    {lines[i] : i \in {j \in 1..Len(lines) :
        count(lines, lines[j]) >= min_occurrences(n) /\ Len(lines[j]) > 5}}

find_repeated_lines(page_texts) ==
    IF Len(page_texts) < 3 THEN [headers |-> {}, footers |-> {}]
    ELSE [headers |-> repeated(first_lines(page_texts, 1), Len(page_texts)),
          footers |-> repeated(last_lines(page_texts, 1), Len(page_texts))]

remove_headers_footers(text, headers, footers) ==
    join(<<"\n">>,
         SelectSeq(split(text),
                   LAMBDA line : /\ strip(line) # <<>>
                                 /\ strip(line) \notin headers
                                 /\ strip(line) \notin footers))

\* re.sub(r"[ \t]+", " ", text)
RECURSIVE collapse_spaces(_)
collapse_spaces(s) ==
    IF s = <<>> THEN <<>>
    ELSE IF Head(s) \in {" ", "\t"}
    THEN IF Len(s) > 1 /\ s[2] \in {" ", "\t"} THEN collapse_spaces(Tail(s))
         ELSE <<" ">> \o collapse_spaces(Tail(s))
    ELSE <<Head(s)>> \o collapse_spaces(Tail(s))

\* re.sub(r"\n{3,}", "\n\n", text)
collapse_newlines(s) ==
    SelectSeq([i \in 1..Len(s) |->
                  IF i > 2 /\ s[i] = "\n" /\ s[i - 1] = "\n" /\ s[i - 2] = "\n"
                  THEN "" ELSE s[i]],
              LAMBDA c : c # "")

collapse_whitespace(text) ==
    LET lines == split(collapse_newlines(collapse_spaces(text)))
    IN  join(<<"\n">>, [i \in 1..Len(lines) |-> rstrip(lines[i])])

\* \b at the gap before position i of s
word_boundary(s, i) ==
    (i > 1 /\ i <= Len(s) /\ is_word(s[i - 1]) # is_word(s[i]))
        \/ (i = 1 /\ s # <<>> /\ is_word(s[1]))
        \/ (i = Len(s) + 1 /\ s # <<>> /\ is_word(s[Len(s)]))

digit_at(s, i) == i >= 1 /\ i <= Len(s) /\ is_digit(s[i])
upper_at(s, i) == i >= 1 /\ i <= Len(s) /\ is_upper(s[i])

\* the five substitutions, each by re.sub over the result of the one before
normalize_ocr_artifacts(text) ==
    LET r1 == [i \in 1..Len(text) |->
                  IF /\ text[i] = "l" /\ word_boundary(text, i)
                     /\ word_boundary(text, i + 1) /\ digit_at(text, i + 1)
                  THEN "1" ELSE text[i]]
        r2 == [i \in 1..Len(r1) |->
                  IF r1[i] = "O" /\ digit_at(r1, i - 1) /\ digit_at(r1, i + 1)
                  THEN "0" ELSE r1[i]]
        r3 == [i \in 1..Len(r2) |->
                  IF r2[i] = "l" /\ digit_at(r2, i - 1) /\ digit_at(r2, i + 1)
                  THEN "1" ELSE r2[i]]
        ll(s, i) == /\ i >= 1 /\ i < Len(s) /\ s[i] = "l" /\ s[i + 1] = "l"
                    /\ word_boundary(s, i) /\ word_boundary(s, i + 2)
        r4 == [i \in 1..Len(r3) |->
                  IF ll(r3, i) \/ ll(r3, i - 1) THEN "1" ELSE r3[i]]
    IN  [i \in 1..Len(r4) |->
            IF r4[i] = "0" /\ upper_at(r4, i - 1) /\ upper_at(r4, i + 1)
            THEN "O" ELSE r4[i]]

\* f"[PAGE {i + 1}]\n"
page_marker(i) ==
    <<"[", "P", "A", "G", "E", " ",
      <<"1", "2", "3", "4", "5", "6", "7", "8", "9">>[i], "]", "\n">>

canonicalize_document(page_texts, is_ocr) ==
    LET found == find_repeated_lines(page_texts)
        cleaned(i) ==
            LET collapsed == collapse_whitespace(
                                 remove_headers_footers(page_texts[i],
                                                        found.headers,
                                                        found.footers))
            IN  page_marker(i) \o (IF is_ocr THEN normalize_ocr_artifacts(collapsed)
                                   ELSE collapsed)
        cleaned_pages == [i \in 1..Len(page_texts) |-> cleaned(i)]
    IN  [text |-> join(<<"\n", "\n">>, cleaned_pages),
         page_texts |-> cleaned_pages,
         removed_headers |-> found.headers,
         removed_footers |-> found.footers]

\* ---- the documents canonicalization is applied to ----
PageTexts == {
    <<"A", "C", "M", "E", " ", "B", "A", "N", "K", "\n", "a", "l", "p",
       "h", "a", " ", "o", "n", "e", "\n", "P", "a", "g", "e", " ", "e",
       "n", "d">>,
    <<" ", " ", "A", "C", "M", "E", " ", "B", "A", "N", "K", " ", "\n",
       "\n", "b", "e", "t", "a", " ", " ", "t", "w", "o", " ", "\t", " ",
       "b", "\n", "P", "a", "g", "e", " ", "e", "n", "d">>,
    <<"T", "i", "t", "l", "e", "\n", "A", "C", "M", "E", " ", "B", "A",
       "N", "K", "\n", "g", "a", "m", "m", "a", "\n", "d", "e", "l", "t",
       "a", "\n", "P", "a", "g", "e", " ", "e", "n", "d", "\n">>,
    <<"A", "C", "M", "E", " ", "B", "A", "N", "K", "\n", "B", "o", "x",
       " ", "l", "l", " ", "1", "O", "1", "\n", "P", "a", "g", "e", " ",
       "e", "n", "d">>,
    <<"e", "p", "s", "i", "l", "o", "n", "\n", "\n", "\n", "\n", "z",
       "e", "t", "a">>,
    <<"A", "C", "M", "E", " ", "B", "A", "N", "K", "\n", "e", "t", "a",
       "\n", "t", "h", "e", "t", "a", "\n", "i", "o", "t", "a", "\n",
       "A", "C", "M", "E", " ", "B", "A", "N", "K", "\n", "k", "a", "p",
       "p", "a">>}

NotCanonicalized ==
    [text |-> <<>>, page_texts |-> <<>>, removed_headers |-> {},
     removed_footers |-> {}]

CanonInit ==
    /\ cn_pages \in UNION {[1..n -> PageTexts] : n \in 2..MaxCanonPages}
    /\ cn_is_ocr \in BOOLEAN
    /\ cn_done = FALSE
    /\ cn_result = NotCanonicalized
    /\ ChunkIdle
    /\ IngestIdle
    /\ ApiIdle
    /\ WatchIdle
    /\ ClientIdle
    /\ SearchIdle
    /\ ScoreIdle
    /\ ParseIdle
    /\ ScanIdle
    /\ AgentIdle
    /\ RelIdle
    /\ ReindexIdle
    /\ ParserIdle
    /\ PoolIdle
    /\ CollapseIdle
    /\ OcrIdle

CanonicalizeDocument ==
    /\ ~cn_done
    /\ cn_done' = TRUE
    /\ cn_result' = canonicalize_document(cn_pages, cn_is_ocr)
    /\ UNCHANGED <<cn_pages, cn_is_ocr>>
    /\ UNCHANGED notCanonVars

CanonNext == CanonicalizeDocument

SpecCanon == CanonInit /\ [][CanonNext]_vars


\* ---- properties of canonicalization ----
normalise_whitespace(line) == strip(collapse_spaces(line))

LinesOf(lines) == {lines[i] : i \in 1..Len(lines)}

\* the lines of output page i after its [PAGE n] marker
OutputLines(i) == LinesOf(Tail(split(cn_result.page_texts[i])))

\* how often a stripped line occurs in the whole input document
Occurrences(line) ==
    Cardinality({ij \in (1..Len(cn_pages)) \X (1..30) :
                    /\ ij[2] <= Len(stripped_lines(cn_pages[ij[1]]))
                    /\ stripped_lines(cn_pages[ij[1]])[ij[2]] = line})

OnEveryPage(line) ==
    /\ Len(cn_pages) >= 3
    /\ Len(line) > 5
    /\ \/ \A i \in 1..Len(cn_pages) :
              line \in LinesOf(first_three(stripped_lines(cn_pages[i])))
       \/ \A i \in 1..Len(cn_pages) :
              line \in LinesOf(last_three(stripped_lines(cn_pages[i])))

RepeatedLines ==
    {line \in UNION {LinesOf(stripped_lines(cn_pages[i])) : i \in 1..Len(cn_pages)} :
        OnEveryPage(line)}

RepeatedLinesRemoved ==
    \A line \in RepeatedLines : \A i \in 1..Len(cn_pages) :
        \A out \in OutputLines(i) : strip(out) # line

UniqueLinesKept(image(_)) ==
    \A i \in 1..Len(cn_pages) :
        \A line \in LinesOf(stripped_lines(cn_pages[i])) :
            Occurrences(line) = 1 =>
                \E out \in OutputLines(i) :
                    normalise_whitespace(out) = image(line)

\* C28: in a document of 3 or more pages where a line longer than 5
\* characters is among the first 3 (or last 3) non-blank lines of every page,
\* canonicalization removes that line from every page and keeps, up to
\* whitespace normalisation, every non-blank line that occurs only once in the
\* whole document.
C28_RepeatedRemovedUniqueKept ==
    (cn_done /\ RepeatedLines # {}) =>
        /\ RepeatedLinesRemoved
        /\ UniqueLinesKept(normalise_whitespace)

\* C28 (amended): the repeated line is removed from every page, and every
\* non-blank line that occurs only once is kept up to whitespace normalisation
\* when is_ocr is false and up to whitespace normalisation and the OCR
\* substitutions when is_ocr is true.
C28_RepeatedRemovedUniqueKeptUpToOcr ==
    (cn_done /\ RepeatedLines # {}) =>
        /\ RepeatedLinesRemoved
        /\ UniqueLinesKept(LAMBDA line :
               IF cn_is_ocr
               THEN normalise_whitespace(
                        normalize_ocr_artifacts(normalise_whitespace(line)))
               ELSE normalise_whitespace(line))

C28_Witness ==
    /\ cn_done
    /\ Len(cn_pages) >= 3
    /\ RepeatedLines # {}
    /\ cn_result.removed_headers # {}
    /\ \E i \in 1..Len(cn_pages) :
           \E line \in LinesOf(stripped_lines(cn_pages[i])) :
               /\ Occurrences(line) = 1
               /\ normalise_whitespace(line) # line
               /\ normalise_whitespace(line) \in OutputLines(i)

\* ---- properties of parse ----
\* a glob against a complete name: * is any run of characters, ? is one
\* character, every other character stands for itself
RECURSIVE glob_match(_, _)
glob_match(glob, name) ==
    IF glob = <<>> THEN name = <<>>
    ELSE IF Head(glob) = "*"
         THEN \E k \in 0..Len(name) :
                  glob_match(Tail(glob), SubSeq(name, k + 1, Len(name)))
    ELSE /\ name # <<>>
         /\ Head(glob) = "?" \/ Head(glob) = Head(name)
         /\ glob_match(Tail(glob), Tail(name))

ParsedName == pr_path[Len(pr_path)]

ParseReachedSkipPatterns ==
    /\ pr_result.outcome = "returned"
    /\ relative_to(pr_path, root_path).ok
    /\ Len(relative_to(pr_path, root_path).parts) >= 2

SkippedByPattern(i) ==
    /\ ~pr_result.value.is_valid
    /\ pr_result.value.skip_reason =
           <<"Matches skip pattern: ", _glob_to_regex(skip_patterns_config[i])>>

\* C29: parse marks a path invalid because of a skip pattern exactly when the
\* complete filename matches that glob, anchored at both ends; a filename of
\* which only a prefix matches the glob is not skipped.
C29_SkippedExactlyOnCompleteMatch ==
    ParseReachedSkipPatterns =>
        /\ \A i \in 1..Len(skip_patterns_config) :
               SkippedByPattern(i) => glob_match(skip_patterns_config[i], ParsedName)
        /\ (\E i \in 1..Len(skip_patterns_config) :
                glob_match(skip_patterns_config[i], ParsedName))
               => \E i \in 1..Len(skip_patterns_config) : SkippedByPattern(i)

UnderNasRoot(path) ==
    /\ Len(path) >= Len(root_path)
    /\ \A i \in 1..Len(root_path) : path[i] = root_path[i]

\* C30: for every path not under the configured NAS root parse returns
\* is_valid = false with a skip reason naming the NAS root; for every path it
\* returns a ParsedPath without raising, with skip_reason set whenever is_valid
\* is false and client_code and client_type set whenever is_valid is true.
C30_ParseIsTotal ==
    pr_result # NotParsed =>
        /\ pr_result.outcome = "returned"
        /\ ~UnderNasRoot(pr_path) =>
               /\ ~pr_result.value.is_valid
               /\ pr_result.value.skip_reason = <<"Not under NAS root">>
        /\ ~pr_result.value.is_valid => pr_result.value.skip_reason # NoString
        /\ pr_result.value.is_valid =>
               /\ pr_result.value.client_code # NoString
               /\ pr_result.value.client_type # None

C30_Witness ==
    /\ pr_result.outcome = "returned"
    /\ ~UnderNasRoot(pr_path)
    /\ Len(pr_path) > Len(root_path)
    /\ ~pr_result.value.is_valid
    /\ pr_result.value.skip_reason = <<"Not under NAS root">>

MaxParseCalls == 3

RepeatPaths ==
    ScanPaths
    \cup {<<<<"/">>, <<"s", "o", "m", "e">>, <<"a", ".", "p", "d", "f">>>>,
          root_path \o <<<<"a", ".", "p", "d", "f">>>>,
          root_path \o <<<<"1", "0", "x", "1", "_", "A">>, <<"a", ".", "p", "d", "f">>>>}

ParserInit ==
    /\ fp_self = FolderParser
    /\ fp_calls = <<>>
    /\ ChunkIdle
    /\ IngestIdle
    /\ ApiIdle
    /\ WatchIdle
    /\ ClientIdle
    /\ SearchIdle
    /\ ScoreIdle
    /\ ParseIdle
    /\ ScanIdle
    /\ AgentIdle
    /\ RelIdle
    /\ ReindexIdle
    /\ CanonIdle
    /\ PoolIdle
    /\ CollapseIdle
    /\ OcrIdle

\* a parser that forgets its skip patterns once it has returned an invalid path
self_after_parse_Learns(self, full_path) ==
    IF parse_method(self, full_path).value.is_valid THEN self
    ELSE [self EXCEPT !.skip_patterns = <<>>]

\* the parser object after parse returned: parse and the helpers it calls
\* assign no attribute of self
self_after_parse(self, full_path) == self

ParseCall(full_path) ==
    /\ Len(fp_calls) < MaxParseCalls
    /\ fp_calls' = Append(fp_calls, [path |-> full_path,
                                     result |-> parse_method(fp_self, full_path)])
    /\ fp_self' = self_after_parse(fp_self, full_path)
    /\ UNCHANGED notParserVars

ParserNext == \E full_path \in RepeatPaths : ParseCall(full_path)

SpecParser == ParserInit /\ [][ParserNext]_vars

Reviewed(p, item_id) ==
    /\ h_resp[p].status \in {"approved", "rejected"}
    /\ h_resp[p].item_id = item_id

\* C33: approve and reject requests (or two approve requests) for the same
\* pending item that are handled concurrently end as in some serial order:
\* exactly one of them succeeds, the item keeps the status that request set,
\* and a client created from the item (its nas_folder_path is the item's
\* nas_path) exists only if that status is approved.
C33_ReviewsAreSerializable ==
    \A q \in sync_queue :
        /\ \A p, o \in Procs :
               (/\ Reviewed(p, q.id) /\ Reviewed(o, q.id)
                /\ h_resp[p].status = "approved") => p = o
        /\ \A p \in Procs :
               (Reviewed(p, q.id) /\ \A o \in Procs : h_pc[o] = "idle")
                   => q.status = h_resp[p].status
        /\ (/\ \A o \in Procs : h_pc[o] = "idle"
            /\ q.item_type = "client"
            /\ q.status # "approved")
               => \A c \in clients : c.nas_folder_path # q.nas_path

(***************************************************************************)
(* The worker pool: worker/main.py and worker/tasks/ingest.py              *)
(*                                                                         *)
(* PoolSize worker processes take one message at a time                    *)
(* (worker_prefetch_multiplier=1) from the broker and acknowledge it when  *)
(* the task has returned or raised (task_acks_late).  ingest_document      *)
(* sends each sub-stage as a task of its own and blocks in .get() until    *)
(* the result is in the backend, holding its worker meanwhile.  A task     *)
(* that runs longer than task_soft_time_limit gets SoftTimeLimitExceeded   *)
(* raised inside it.                                                       *)
(***************************************************************************)
PoolSize == 2
MaxPoolDocs == 2

Workers == 1..PoolSize
PoolDocs == 1..MaxPoolDocs

SubTasks == {"extract", "ocr", "canonicalize", "chunk_and_embed"}

IdleWorker == [task |-> "idle", doc |-> 0, pc |-> "idle", tx_failed |-> FALSE]

Message(task, doc) == [task |-> task, doc |-> doc]

\* file_arrived has inserted every document as pending and sent its
\* ingest_document message
PoolInit ==
    /\ pl_queue = {Message("ingest_document", d) : d \in PoolDocs}
    /\ pl_worker = [w \in Workers |-> IdleWorker]
    /\ pl_results = {}
    /\ pl_status = [d \in PoolDocs |-> "pending"]
    /\ ChunkIdle
    /\ IngestIdle
    /\ ApiIdle
    /\ WatchIdle
    /\ ClientIdle
    /\ SearchIdle
    /\ ScoreIdle
    /\ ParseIdle
    /\ ScanIdle
    /\ AgentIdle
    /\ RelIdle
    /\ ReindexIdle
    /\ CanonIdle
    /\ ParserIdle
    /\ CollapseIdle
    /\ OcrIdle

\* an idle worker process takes a message of any queue it consumes
PoolDeliver(w) ==
    /\ pl_worker[w] = IdleWorker
    /\ \E m \in pl_queue :
          /\ pl_queue' = pl_queue \ {m}
          /\ pl_worker' = [pl_worker EXCEPT ![w] =
                 [task |-> m.task, doc |-> m.doc, pc |-> "start", tx_failed |-> FALSE]]
    /\ UNCHANGED <<pl_results, pl_status, notPoolVars>>

\* app.send_task(name, args).get(): the message goes out and the task waits
send_task_and_get(w, name) ==
    /\ pl_queue' = pl_queue \cup {Message(name, pl_worker[w].doc)}
    /\ pl_worker' = [pl_worker EXCEPT ![w].pc = name]

\* ingest.py lines 150-181: lookup, status extracting, download, the
\* extractor task is sent
IngestStart(w) ==
    /\ pl_worker[w].task = "ingest_document"
    /\ pl_worker[w].pc = "start"
    /\ pl_status' = [pl_status EXCEPT ![pl_worker[w].doc] = "extracting"]
    /\ send_task_and_get(w, "extract")
    /\ UNCHANGED <<pl_results, notPoolVars>>

\* the status ingest_document writes before it sends the next sub-stage
status_before(stage) ==
    IF stage = "ocr" THEN "ocr"
    ELSE IF stage = "canonicalize" THEN "canonicalizing"
    ELSE "chunking"

\* lines 181-220: .get() returns the result of the sub-stage waited for and
\* the next one is sent; after chunk_and_embed the chunks are stored
IngestResult(w) ==
    LET me == pl_worker[w]
        result == [task |-> me.pc, doc |-> me.doc, outcome |-> "ok"]
    IN  /\ me.task = "ingest_document"
        /\ me.pc \in SubTasks
        /\ result \in pl_results
        /\ pl_results' = pl_results \ {result}
        /\ IF me.pc = "chunk_and_embed"
           THEN /\ pl_status' = [pl_status EXCEPT ![me.doc] = "embedding"]
                /\ pl_worker' = [pl_worker EXCEPT ![w].pc = "store_chunks"]
                /\ UNCHANGED pl_queue
           ELSE \E next \in (IF me.pc = "extract" THEN {"ocr", "canonicalize"}
                             ELSE IF me.pc = "ocr" THEN {"canonicalize"}
                             ELSE {"chunk_and_embed"}) :
                    /\ pl_status' = [pl_status EXCEPT ![me.doc] = status_before(next)]
                    /\ send_task_and_get(w, next)
        /\ UNCHANGED notPoolVars

\* .get() re-raises the exception of a sub-stage that failed (line 262)
IngestSubTaskFailed(w) ==
    LET me == pl_worker[w]
        result == [task |-> me.pc, doc |-> me.doc, outcome |-> "raised"]
    IN  /\ me.task = "ingest_document"
        /\ me.pc \in SubTasks
        /\ result \in pl_results
        /\ pl_results' = pl_results \ {result}
        /\ pl_worker' = [pl_worker EXCEPT ![w].pc = "handler"]
        /\ UNCHANGED <<pl_queue, pl_status, notPoolVars>>

\* lines 228-260 and 272: store_chunks, status ready, the task returns and
\* its message is acknowledged
IngestStore(w) ==
    /\ pl_worker[w].task = "ingest_document"
    /\ pl_worker[w].pc = "store_chunks"
    /\ pl_status' = [pl_status EXCEPT ![pl_worker[w].doc] = "ready"]
    /\ pl_worker' = [pl_worker EXCEPT ![w] = IdleWorker]
    /\ UNCHANGED <<pl_queue, pl_results, notPoolVars>>

\* store_chunks raises (lines 94-119); when the store rejected a statement
\* the session stays inside the aborted transaction
IngestStoreRaises(w) ==
    /\ pl_worker[w].task = "ingest_document"
    /\ pl_worker[w].pc = "store_chunks"
    /\ \E aborted \in BOOLEAN :
          pl_worker' = [pl_worker EXCEPT ![w].pc = "handler", ![w].tx_failed = aborted]
    /\ UNCHANGED <<pl_queue, pl_results, pl_status, notPoolVars>>

\* task_soft_time_limit (main.py line 34): SoftTimeLimitExceeded is raised
\* in the running ingest_document, wherever it is
SoftTimeLimit(w) ==
    /\ pl_worker[w].task = "ingest_document"
    /\ pl_worker[w].pc # "handler"
    /\ pl_worker' = [pl_worker EXCEPT ![w].pc = "handler"]
    /\ UNCHANGED <<pl_queue, pl_results, pl_status, notPoolVars>>

\* a handler that always gets its UPDATE through
handler_status_Persisted(tx_failed, status) == "failed"

\* lines 262-269: update_document_status(db, document_id, "failed", ...) on
\* the task's session; the UPDATE fails too inside an aborted transaction
handler_status(tx_failed, status) == IF tx_failed THEN status ELSE "failed"

\* except Exception (lines 262-272): the status is written, the exception
\* leaves the task and the message is acknowledged
PoolHandler(w) ==
    LET me == pl_worker[w]
    IN  /\ me.task = "ingest_document"
        /\ me.pc = "handler"
        /\ pl_status' = [pl_status EXCEPT ![me.doc] =
                            handler_status(me.tx_failed, pl_status[me.doc])]
        /\ pl_worker' = [pl_worker EXCEPT ![w] = IdleWorker]
        /\ UNCHANGED <<pl_queue, pl_results, notPoolVars>>

\* a worker runs a sub-stage task to its end: the result, or the exception,
\* goes to the result backend
SubTaskRun(w) ==
    LET me == pl_worker[w]
    IN  /\ me.task \in SubTasks
        /\ \E outcome \in {"ok", "raised"} :
              pl_results' = pl_results \cup
                  {[task |-> me.task, doc |-> me.doc, outcome |-> outcome]}
        /\ pl_worker' = [pl_worker EXCEPT ![w] = IdleWorker]
        /\ UNCHANGED <<pl_queue, pl_status, notPoolVars>>

PoolNext ==
    \E w \in Workers :
        \/ PoolDeliver(w) \/ IngestStart(w) \/ IngestResult(w)
        \/ IngestSubTaskFailed(w) \/ IngestStore(w) \/ IngestStoreRaises(w)
        \/ SoftTimeLimit(w) \/ PoolHandler(w) \/ SubTaskRun(w)

\* every worker process keeps running: it takes a message when it is idle
\* and one is queued, a running task takes its next step, and the soft time
\* limit of a task that keeps running does expire
PoolFairness ==
    \A w \in Workers :
        /\ WF_vars(PoolDeliver(w))
        /\ WF_vars(IngestStart(w) \/ IngestResult(w) \/ IngestSubTaskFailed(w))
        /\ WF_vars(IngestStore(w) \/ IngestStoreRaises(w))
        /\ WF_vars(SoftTimeLimit(w))
        /\ WF_vars(PoolHandler(w))
        /\ WF_vars(SubTaskRun(w))

SpecPool == PoolInit /\ [][PoolNext]_vars /\ PoolFairness

\* every worker holds an ingest_document that waits for a sub-stage whose
\* message is still queued
PoolExhausted ==
    \A w \in Workers :
        /\ pl_worker[w].task = "ingest_document"
        /\ pl_worker[w].pc \in SubTasks
        /\ Message(pl_worker[w].pc, pl_worker[w].doc) \in pl_queue

IsDrainStep ==
    d_pc' # d_pc \/ to_process' # to_process \/ paths_to_remove' # paths_to_remove

Younger(entry) == ~(entry.time < wt_clock - DebounceSeconds)

OnlyDueScheduled ==
    IsDrainStart =>
        \A j \in DOMAIN to_process' :
            \E i \in DOMAIN pending_events :
                /\ to_process'[j] = <<pending_events[i].path, pending_events[i].type>>
                /\ ~Younger(pending_events[i])

\* C35: the watcher dispatches no event before debounce_seconds have passed
\* since the most recent raw event recorded for its path: a tick schedules
\* only entries whose timestamp is strictly older than now minus the debounce
\* window, and leaves every younger entry in the pending map unchanged.
C35_DebounceWindowRespected ==
    [][/\ OnlyDueScheduled
       /\ IsDrainStep =>
             \A i \in DOMAIN pending_events :
                 Younger(pending_events[i]) =>
                     \E k \in DOMAIN pending_events' :
                         pending_events'[k] = pending_events[i]]_vars

\* ---- what find_repeated_lines reports ----
\* the pages on which line is among the non-blank lines part() selects
PagesWith(line, part(_)) ==
    {i \in 1..Len(cn_pages) : line \in LinesOf(part(stripped_lines(cn_pages[i])))}

\* at least the threshold fraction, 0.7, of the pages
AtLeastThresholdOfPages(pages_with) ==
    10 * Cardinality(pages_with) >= 7 * Len(cn_pages)

\* C36: find_repeated_lines reports a line as header (footer) only if the
\* document has at least 3 pages, the line is longer than 5 characters, and
\* the line is among the first 3 (last 3) non-blank lines on at least the
\* threshold fraction, 0.7 by default, of the pages.
C36_ReportedOnlyAboveThreshold ==
    cn_done =>
        /\ \A line \in cn_result.removed_headers :
               /\ Len(cn_pages) >= 3
               /\ Len(line) > 5
               /\ AtLeastThresholdOfPages(PagesWith(line, first_three))
        /\ \A line \in cn_result.removed_footers :
               /\ Len(cn_pages) >= 3
               /\ Len(line) > 5
               /\ AtLeastThresholdOfPages(PagesWith(line, last_three))


(***************************************************************************)
(* collapse_whitespace (worker/tasks/canonicalize.py) on texts of its own  *)
(***************************************************************************)
MaxTextLen == 4

TextChars == {"a", " ", "\t", "\n"}

Texts == UNION {[1..n -> TextChars] : n \in 0..MaxTextLen}

CollapseInit ==
    /\ cw_text \in Texts
    /\ cw_calls = 0
    /\ cw_result = <<>>
    /\ ChunkIdle
    /\ IngestIdle
    /\ ApiIdle
    /\ WatchIdle
    /\ ClientIdle
    /\ SearchIdle
    /\ ScoreIdle
    /\ ParseIdle
    /\ ScanIdle
    /\ AgentIdle
    /\ RelIdle
    /\ ReindexIdle
    /\ CanonIdle
    /\ ParserIdle
    /\ PoolIdle
    /\ OcrIdle

\* collapse_whitespace(text), and then collapse_whitespace of what it returned
CollapseWhitespace ==
    /\ cw_calls < 2
    /\ cw_calls' = cw_calls + 1
    /\ cw_result' = Append(cw_result,
                           collapse_whitespace(IF cw_calls = 0 THEN cw_text
                                               ELSE cw_result[cw_calls]))
    /\ UNCHANGED cw_text
    /\ UNCHANGED notCollapseVars

CollapseNext == CollapseWhitespace

SpecCollapse == CollapseInit /\ [][CollapseNext]_vars

HasSpaceRun(s) ==
    \E i \in 1..(Len(s) - 1) : s[i] \in {" ", "\t"} /\ s[i + 1] \in {" ", "\t"}

HasTrailingWhitespace(s) ==
    \E i \in 1..Len(s) :
        /\ s[i] \in {" ", "\t"}
        /\ i = Len(s) \/ s[i + 1] = "\n"

HasNewlineRun(s) ==
    \E i \in 1..(Len(s) - 2) : s[i] = "\n" /\ s[i + 1] = "\n" /\ s[i + 2] = "\n"

\* C37: for every input text the output of collapse_whitespace has no run of
\* two or more spaces or tabs, no line with trailing whitespace and no run of
\* three or more newlines, and applying collapse_whitespace twice gives the
\* same as applying it once.
C37_CollapseIsNormalForm ==
    /\ \A i \in DOMAIN cw_result :
           /\ ~HasSpaceRun(cw_result[i])
           /\ ~HasTrailingWhitespace(cw_result[i])
           /\ ~HasNewlineRun(cw_result[i])
    /\ Len(cw_result) = 2 => cw_result[2] = cw_result[1]

(***************************************************************************)
(* The OCR decision: check_ocr_needed (worker/tasks/ocr.py) and the branch *)
(* of ingest_document that calls it (worker/tasks/ingest.py lines 187-204) *)
(***************************************************************************)
\* OCRThresholds: min_chars_per_page = 200 and min_text_ratio = 0.001, the
\* ratio kept as the fraction 1 / min_text_ratio_inverse
min_chars_per_page == 200
min_text_ratio_inverse == 1000

\* len(text), page_count and file_size around the two thresholds
CharCounts == {0, 1, 199, 200, 201, 399, 400, 1000}
PageCounts == {0, 1, 2}
FileSizes == {0, 1, 1000, 200000, 200001, 1000000}
OcrConfigs == [enabled : BOOLEAN, mode : {"fallback_only", "always"}]

OcrInit ==
    /\ oc_input \in [char_count : CharCounts, page_count : PageCounts,
                     file_size : FileSizes, config : OcrConfigs]
    /\ oc_pc = "check_ocr"
    /\ oc_needed = [outcome |-> "none", value |-> FALSE]
    /\ oc_statuses = <<"extracting">>
    /\ ChunkIdle
    /\ IngestIdle
    /\ ApiIdle
    /\ WatchIdle
    /\ ClientIdle
    /\ SearchIdle
    /\ ScoreIdle
    /\ ParseIdle
    /\ ScanIdle
    /\ AgentIdle
    /\ RelIdle
    /\ ReindexIdle
    /\ CanonIdle
    /\ ParserIdle
    /\ PoolIdle
    /\ CollapseIdle

\* a divisor taken as it is
at_least_one_Raw(n) == n

\* max(page_count, 1), max(file_size, 1)
at_least_one(n) == Max(n, 1)

\* numerator / denominator < limit_num / limit_den in Python: a zero
\* denominator raises ZeroDivisionError
quotient_below(numerator, denominator, limit_num, limit_den) ==
    IF denominator = 0 THEN [raised |-> TRUE, value |-> FALSE]
    ELSE [raised |-> FALSE,
          value |-> numerator * limit_den < limit_num * denominator]

OcrReturned(value) == [outcome |-> "returned", value |-> value]
ZeroDivisionError == [outcome |-> "raised", value |-> FALSE]

check_ocr_needed(char_count, file_size, page_count, config) ==
    LET pages_low == quotient_below(char_count, at_least_one(page_count),
                                    min_chars_per_page, 1)
        ratio_low == quotient_below(char_count, at_least_one(file_size),
                                    1, min_text_ratio_inverse)
    IN  IF ~config.enabled THEN OcrReturned(FALSE)
        ELSE IF config.mode # "fallback_only" THEN OcrReturned(TRUE)
        ELSE IF pages_low.raised \/ ratio_low.raised THEN ZeroDivisionError
        ELSE OcrReturned(pages_low.value \/ ratio_low.value)

\* ingest.py lines 187-190 (and the handler at 262-269 if the call raises)
OcrCheck ==
    /\ oc_pc = "check_ocr"
    /\ LET needs_ocr == check_ocr_needed(oc_input.char_count, oc_input.file_size,
                                         oc_input.page_count, oc_input.config)
       IN  /\ oc_needed' = needs_ocr
           /\ IF needs_ocr.outcome = "raised"
              THEN /\ oc_statuses' = Append(oc_statuses, "failed")
                   /\ oc_pc' = "done"
              ELSE IF needs_ocr.value
              THEN /\ oc_statuses' = Append(oc_statuses, "ocr")
                   /\ oc_pc' = "ocr"
              ELSE /\ UNCHANGED oc_statuses
                   /\ oc_pc' = "mark_canonicalizing"
    /\ UNCHANGED <<oc_input, notOcrVars>>

\* lines 193-201: the OCR task runs
OcrDocument ==
    /\ oc_pc = "ocr"
    /\ oc_pc' = "mark_canonicalizing"
    /\ UNCHANGED <<oc_input, oc_needed, oc_statuses, notOcrVars>>

\* line 204
OcrMarkCanonicalizing ==
    /\ oc_pc = "mark_canonicalizing"
    /\ oc_statuses' = Append(oc_statuses, "canonicalizing")
    /\ oc_pc' = "done"
    /\ UNCHANGED <<oc_input, oc_needed, notOcrVars>>

OcrNext == OcrCheck \/ OcrDocument \/ OcrMarkCanonicalizing

SpecOcr == OcrInit /\ [][OcrNext]_vars

FallbackOnly(config) == config.enabled /\ config.mode = "fallback_only"

\* the two ratios of the text against the thresholds, a count of 0 taken as 1
TextIsThin ==
    LET pages == IF oc_input.page_count = 0 THEN 1 ELSE oc_input.page_count
        size == IF oc_input.file_size = 0 THEN 1 ELSE oc_input.file_size
    IN  \/ oc_input.char_count < min_chars_per_page * pages
        \/ oc_input.char_count * min_text_ratio_inverse < size

EnteredOcr == \E i \in DOMAIN oc_statuses : oc_statuses[i] = "ocr"

\* C38: with OCR enabled in fallback_only mode check_ocr_needed returns true
\* exactly when total_chars / max(page_count, 1) is below min_chars_per_page
\* or total_chars / max(file_size, 1) is below min_text_ratio, a page count or
\* file size of 0 never raising, and ingest_document enters the ocr state
\* exactly when it returns true.
C38_OcrExactlyWhenTextIsThin ==
    (oc_pc # "check_ocr" /\ FallbackOnly(oc_input.config)) =>
        /\ oc_needed.outcome = "returned"
        /\ oc_needed.value = TextIsThin
        /\ oc_pc = "done" => (EnteredOcr <=> oc_needed.value)
        /\ \A i \in DOMAIN oc_statuses : oc_statuses[i] # "failed"

C38_Witness ==
    /\ oc_pc = "done"
    /\ FallbackOnly(oc_input.config)
    /\ oc_input.page_count = 0
    /\ oc_input.file_size = 0
    /\ oc_input.char_count = 200
    /\ oc_needed = OcrReturned(FALSE)
    /\ ~EnteredOcr

\* the documents at nas_path whose deleted_at is set
SoftDeletedAt(nas_path) ==
    {d \in documents : d.nas_full_path = nas_path /\ d.deleted_at # NoTime}

\* C39: a file-arrived request for a path whose Document has been
\* soft-deleted is answered duplicate with that document's id; the step
\* creates no Document, enqueues no ingestion task, and leaves deleted_at (and
\* every field but last_seen_at) of the document as it was.
C39_DeletedPathIsDuplicate ==
    [][\A p \in Procs : \A file \in AgentFiles :
          (SoftDeletedAt(file[1]) # {} /\ file_arrived(p, {file})) =>
              /\ h_pc'[p] = "idle"
              /\ h_resp'[p].status = "duplicate"
              /\ \E d \in documents :
                    /\ d.nas_full_path = file[1]
                    /\ h_resp'[p].existing_document_id = d.id
                    /\ documents' = (documents \ {d})
                           \cup {[d EXCEPT !.last_seen_at = now']}
              /\ {d.id : d \in documents'} = {d.id : d \in documents}
              /\ \A d \in SoftDeletedAt(file[1]) :
                    \E e \in documents' :
                        e.id = d.id /\ e.deleted_at = d.deleted_at
              /\ UNCHANGED <<sent_tasks, sync_queue, clients, cases,
                             document_chunks>>]_vars

\* A soft-deleted document was seen again: its deleted_at is set, its
\* last_seen_at is later than the deletion, and the handler answered
\* duplicate with its id.
C39_Witness ==
    \E p \in Procs : \E d \in documents :
        /\ d.deleted_at # NoTime
        /\ d.last_seen_at > d.deleted_at
        /\ h_resp[p].status = "duplicate"
        /\ h_resp[p].existing_document_id = d.id

\* C40: after every processed file, and so when scan returns, files_scanned
\* is the sum of files_queued, files_skipped and files_failed, and
\* relationships_found is at most files_skipped; the returned statistics
\* carry these counters and files_scanned is the number of collected files.
C40_CountersPartitionScanned ==
    /\ files_scanned = files_queued + files_skipped + files_failed
    /\ relationships_found <= files_skipped
    /\ sn_pc = "returned" =>
           /\ sn_results.files_scanned = Len(all_files)
           /\ sn_results.files_scanned =
                  sn_results.files_queued + sn_results.files_skipped
                      + sn_results.files_failed
           /\ sn_results.relationships_found <= sn_results.files_skipped

\* A scan returned after a shortcut that gave a relationship (counted as
\* skipped) and a file whose notification failed (counted as failed).
C40_Witness ==
    /\ sn_pc = "returned"
    /\ sn_results.files_scanned = 2
    /\ sn_results.relationships_found = 1
    /\ sn_results.files_skipped = 1
    /\ sn_results.files_failed = 1
=============================================================================
